---- MODULE Spec2Model ----
(***************************************************************************)
(* Liquidity assessment engine of the macro-liquidity dashboard            *)
(* (src/app.py; src/apptest2.py carries the same engine).                  *)
(*                                                                         *)
(* One pipeline run of main(): fetch_liquidity_data builds the frame, an   *)
(* empty frame ends the run in the error state, otherwise                  *)
(* assess_liquidity_status classifies the latest row.                      *)
(*                                                                         *)
(* Numbers.  A cell of the frame is a float64: a number or NaN (missing).  *)
(* A cell is the record [nan, v]; volumes and reserves are held in the     *)
(* unit of the source (billions of dollars), rates in hundredths of a      *)
(* percentage point, so that every value of the model is an integer.       *)
(* A percentage change is a float64 too: the record [kind, n, d] is the    *)
(* rational n/d (d > 0) when kind = "num", and NaN, +inf or -inf           *)
(* otherwise (numpy's float64 division by zero raises nothing).            *)
(***************************************************************************)
EXTENDS Integers, Sequences, FiniteSets, TLC

VARIABLES
    pc,              \* position of the script run inside main()
    df,              \* the frame returned by fetch_liquidity_data
    res_change_30d,  \* the local res_change_30d of assess_liquidity_status
    assessment,      \* the snapshot returned by assess_liquidity_status
    rp_change_7d,    \* main(): the local rp_change_7d of the risk section
    rrp_change_7d,   \* main(): the local rrp_change_7d of the risk section
    risk_signals,    \* main(): the list risk_signals
    screen,          \* what the risk section put on the page
    report,          \* the risk section of the text report
    start_date,      \* main(): the start date of the analysis period
    requested,       \* the series requested from the provider, in order
    all_data,        \* fetch_liquidity_data: the fetched series by column
    errors,          \* the st.error messages shown in this run
    password_correct,        \* st.session_state['password_correct']
    liquidity_context,       \* st.session_state['liquidity_context']
    advanced_chat_messages,  \* st.session_state.advanced_chat_messages
    comprehensive_analysis,  \* st.session_state['comprehensive_analysis']
    single_analysis,         \* st.session_state['single_analysis']
    form,                    \* the login form: submit, username, password
    secrets,                 \* st.secrets
    GEMINI_AVAILABLE,        \* module global, set on every script run
    OPENAI_ENABLED,          \* module global, set on every script run
    now,                     \* the clock, in seconds
    cache_series,            \* st.cache_data of fetch_data_with_ffill
    cache_frame,             \* st.cache_data of fetch_liquidity_data
    ai_calls                 \* requests sent to the AI services in this run

\* locals of main()'s risk-signal and report sections
sigvars == <<rp_change_7d, rrp_change_7d, risk_signals, screen, report>>

\* state of fetch_liquidity_data and of the provider calls
fetchvars == <<start_date, requested, all_data, errors>>

\* st.session_state
sessvars ==
    <<password_correct, liquidity_context, advanced_chat_messages,
      comprehensive_analysis, single_analysis, form>>

\* configuration, module globals, the clock and the two caches
envvars ==
    <<secrets, GEMINI_AVAILABLE, OPENAI_ENABLED, now, cache_series,
      cache_frame>>

appvars == <<sessvars, envvars, ai_calls>>

vars == <<pc, df, res_change_30d, assessment, sigvars, fetchvars, appvars>>

----------------------------------------------------------------------------
(* float64 cells *)

NaN == [nan |-> TRUE, v |-> 0]
Num(x) == [nan |-> FALSE, v |-> x]

LtZeroFill(x, t) == x.v < t

\* x > t and x < t on float64: every comparison with NaN is false
Gt(x, t) == ~x.nan /\ x.v > t
Lt(x, t) == ~x.nan /\ x.v < t

(* float64 percentage changes *)

ChgNum(n, d) == [kind |-> "num", n |-> n, d |-> d]
ChgNaN == [kind |-> "nan", n |-> 0, d |-> 1]
ChgPosInf == [kind |-> "inf", n |-> 0, d |-> 1]
ChgNegInf == [kind |-> "ninf", n |-> 0, d |-> 1]
ChgZero == ChgNum(0, 1)
ChgUnset == [kind |-> "unset", n |-> 0, d |-> 1]

\* c < t for a change c and an integer t
ChgLt(c, t) ==
    \/ c.kind = "ninf"
    \/ c.kind = "num" /\ c.n < t * c.d

\* c = t for a change c and an integer t
ChgEq(c, t) == c.kind = "num" /\ c.n = t * c.d

----------------------------------------------------------------------------
(* Thresholds *)

WARNING_LEVELS ==
    [RP       |-> [normal |-> 20, warning |-> 30, danger |-> 50],
     RRP      |-> [danger |-> 100, warning |-> 200, normal |-> 300],
     Reserves |-> [danger |-> 3000, warning |-> 3200],
     Spread   |-> [normal |-> 10, warning |-> 20, danger |-> 100]]

Indicators == <<"RP", "RRP", "Reserves", "Spread">>

----------------------------------------------------------------------------
(* fetch_liquidity_data: the derived spread column *)

\* (SOFR - IORB) * 100, the rates being held in hundredths of a point
SpreadBps(sofr, iorb) ==
    IF sofr.nan \/ iorb.nan THEN NaN
    ELSE Num(((sofr.v - iorb.v) * 100) \div 100)

\* one row of the frame: the five raw columns and Spread_bps
Row(date, rp, rrp, res, sofr, iorb) ==
    [date |-> date, RP |-> rp, RRP |-> rrp, Reserves |-> res,
     SOFR |-> sofr, IORB |-> iorb, Spread_bps |-> SpreadBps(sofr, iorb)]

----------------------------------------------------------------------------
(* assess_liquidity_status *)

\* df.iloc[-k]: the k-th row from the end
Iloc(frame, k) == frame[Len(frame) - k + 1]

Status(level, score, message) ==
    [level |-> level, score |-> score, message |-> message]

RPStatusSwapped(rp_val) ==
    IF Gt(rp_val, WARNING_LEVELS.RP.danger)
    THEN Status("WARNING", 1, "RP rising - short-term funding demand up")
    ELSE IF Gt(rp_val, WARNING_LEVELS.RP.warning)
    THEN Status("DANGER", 0, "RP surge - urgent liquidity demand")
    ELSE IF Gt(rp_val, WARNING_LEVELS.RP.normal)
    THEN Status("CAUTION", 2, "RP near the upper normal bound")
    ELSE Status("NORMAL", 3, "RP stable")

RPStatusInclusive(rp_val) ==
    IF ~rp_val.nan /\ rp_val.v >= WARNING_LEVELS.RP.danger
    THEN Status("DANGER", 0, "RP surge - urgent liquidity demand")
    ELSE IF ~rp_val.nan /\ rp_val.v >= WARNING_LEVELS.RP.warning
    THEN Status("WARNING", 1, "RP rising - short-term funding demand up")
    ELSE IF ~rp_val.nan /\ rp_val.v >= WARNING_LEVELS.RP.normal
    THEN Status("CAUTION", 2, "RP near the upper normal bound")
    ELSE Status("NORMAL", 3, "RP stable")

RPStatus(rp_val) ==
    IF Gt(rp_val, WARNING_LEVELS.RP.danger)
    THEN Status("DANGER", 0, "RP surge - urgent liquidity demand")
    ELSE IF Gt(rp_val, WARNING_LEVELS.RP.warning)
    THEN Status("WARNING", 1, "RP rising - short-term funding demand up")
    ELSE IF Gt(rp_val, WARNING_LEVELS.RP.normal)
    THEN Status("CAUTION", 2, "RP near the upper normal bound")
    ELSE Status("NORMAL", 3, "RP stable")

RRPStatusInclusive(rrp_val) ==
    IF ~rrp_val.nan /\ rrp_val.v <= WARNING_LEVELS.RRP.danger
    THEN Status("DANGER", 0, "RRP extreme low - market cash shortage")
    ELSE IF ~rrp_val.nan /\ rrp_val.v <= WARNING_LEVELS.RRP.warning
    THEN Status("WARNING", 1, "RRP low - liquidity falling")
    ELSE IF ~rrp_val.nan /\ rrp_val.v <= WARNING_LEVELS.RRP.normal
    THEN Status("CAUTION", 2, "RRP near the lower normal bound")
    ELSE Status("NORMAL", 3, "RRP ample")

RRPStatus(rrp_val) ==
    IF Lt(rrp_val, WARNING_LEVELS.RRP.danger)
    THEN Status("DANGER", 0, "RRP extreme low - market cash shortage")
    ELSE IF Lt(rrp_val, WARNING_LEVELS.RRP.warning)
    THEN Status("WARNING", 1, "RRP low - liquidity falling")
    ELSE IF Lt(rrp_val, WARNING_LEVELS.RRP.normal)
    THEN Status("CAUTION", 2, "RRP near the lower normal bound")
    ELSE Status("NORMAL", 3, "RRP ample")

\* ((latest - earlier) / earlier) * 100 on float64
PctChange(latest, earlier) ==
    IF latest.nan \/ earlier.nan THEN ChgNaN
    ELSE IF earlier.v = 0
         THEN IF latest.v > 0 THEN ChgPosInf
              ELSE IF latest.v < 0 THEN ChgNegInf
              ELSE ChgNaN
    ELSE IF earlier.v > 0
         THEN ChgNum((latest.v - earlier.v) * 100, earlier.v)
    ELSE ChgNum((earlier.v - latest.v) * 100, 0 - earlier.v)

ResChange30dOldest(frame) ==
    IF Len(frame) >= 30
    THEN PctChange(Iloc(frame, 1).Reserves, Iloc(frame, 30).Reserves)
    ELSE PctChange(Iloc(frame, 1).Reserves, frame[1].Reserves)

ResChange30d(frame) ==
    IF Len(frame) >= 30
    THEN PctChange(Iloc(frame, 1).Reserves, Iloc(frame, 30).Reserves)
    ELSE ChgZero

ResStatusTrendFirst(res_val, change) ==
    IF Lt(res_val, WARNING_LEVELS.Reserves.danger)
    THEN Status("DANGER", 0, "Reserves at danger level")
    ELSE IF ChgLt(change, -5)
    THEN Status("CAUTION", 2, "Reserves falling sharply")
    ELSE IF Lt(res_val, WARNING_LEVELS.Reserves.warning)
    THEN Status("WARNING", 1, "Reserves on a declining trend")
    ELSE Status("NORMAL", 3, "Reserves stable")

ResStatusInclusive(res_val, change) ==
    IF Lt(res_val, WARNING_LEVELS.Reserves.danger)
    THEN Status("DANGER", 0, "Reserves at danger level")
    ELSE IF Lt(res_val, WARNING_LEVELS.Reserves.warning)
    THEN Status("WARNING", 1, "Reserves on a declining trend")
    ELSE IF ChgLt(change, -5) \/ ChgEq(change, -5)
    THEN Status("CAUTION", 2, "Reserves falling sharply")
    ELSE Status("NORMAL", 3, "Reserves stable")

\* the message also embeds the change, formatted to one decimal
ResStatus(res_val, change) ==
    IF Lt(res_val, WARNING_LEVELS.Reserves.danger)
    THEN Status("DANGER", 0, "Reserves at danger level")
    ELSE IF Lt(res_val, WARNING_LEVELS.Reserves.warning)
    THEN Status("WARNING", 1, "Reserves on a declining trend")
    ELSE IF ChgLt(change, -5)
    THEN Status("CAUTION", 2, "Reserves falling sharply")
    ELSE Status("NORMAL", 3, "Reserves stable")

SpreadStatusInclusive(spread_val) ==
    IF ~spread_val.nan /\ spread_val.v >= WARNING_LEVELS.Spread.danger
    THEN Status("DANGER", 0, "Spread extreme widening - liquidity crisis")
    ELSE IF ~spread_val.nan /\ spread_val.v >= WARNING_LEVELS.Spread.warning
    THEN Status("WARNING", 1, "Spread widening - funding pressure")
    ELSE IF ~spread_val.nan /\ spread_val.v >= WARNING_LEVELS.Spread.normal
    THEN Status("CAUTION", 2, "Spread near the upper normal bound")
    ELSE Status("NORMAL", 3, "Spread stable")

SpreadStatus(spread_val) ==
    IF Gt(spread_val, WARNING_LEVELS.Spread.danger)
    THEN Status("DANGER", 0, "Spread extreme widening - liquidity crisis")
    ELSE IF Gt(spread_val, WARNING_LEVELS.Spread.warning)
    THEN Status("WARNING", 1, "Spread widening - funding pressure")
    ELSE IF Gt(spread_val, WARNING_LEVELS.Spread.normal)
    THEN Status("CAUTION", 2, "Spread near the upper normal bound")
    ELSE Status("NORMAL", 3, "Spread stable")

\* the per-indicator assessments of the latest row
Assessments(frame) ==
    LET latest == Iloc(frame, 1) IN
    [RP       |-> RPStatus(latest.RP),
     RRP      |-> RRPStatus(latest.RRP),
     Reserves |-> ResStatus(latest.Reserves, ResChange30d(frame)),
     Spread   |-> SpreadStatus(latest.Spread_bps)]

TotalScoreNoSpread(a) == a.RP.score + a.RRP.score + a.Reserves.score

\* sum(a['score'] for a in assessments.values())
TotalScore(a) ==
    a.RP.score + a.RRP.score + a.Reserves.score + a.Spread.score

OverallTier(status, level, message, recommendation) ==
    [status |-> status, level |-> level, message |-> message,
     recommendation |-> recommendation]

OverallTierStrict(total_score) ==
    IF total_score > 10
    THEN OverallTier("good", "NORMAL",
                     "All liquidity indicators are in the normal range.",
                     "Keep normal market monitoring")
    ELSE IF total_score > 7
    THEN OverallTier("caution", "CAUTION",
                     "Minor anomalies detected in some indicators.",
                     "Watch market developments closely")
    ELSE IF total_score > 4
    THEN OverallTier("warning", "WARNING",
                     "Liquidity stress signals are appearing.",
                     "Strengthen portfolio risk management")
    ELSE OverallTier("danger", "DANGER",
                     "Severe liquidity strain.",
                     "Urgent risk hedging recommended")

\* the overall tier chosen from the composite score
OverallOf(total_score) ==
    IF total_score >= 10
    THEN OverallTier("good", "NORMAL",
                     "All liquidity indicators are in the normal range.",
                     "Keep normal market monitoring")
    ELSE IF total_score >= 7
    THEN OverallTier("caution", "CAUTION",
                     "Minor anomalies detected in some indicators.",
                     "Watch market developments closely")
    ELSE IF total_score >= 4
    THEN OverallTier("warning", "WARNING",
                     "Liquidity stress signals are appearing.",
                     "Strengthen portfolio risk management")
    ELSE OverallTier("danger", "DANGER",
                     "Severe liquidity strain.",
                     "Urgent risk hedging recommended")

\* the snapshot assess_liquidity_status returns
AssessLiquidityStatus(frame) ==
    LET latest == Iloc(frame, 1)
        a == Assessments(frame)
        total_score == TotalScore(a)
        tier == OverallOf(total_score)
    IN  [assessments |-> a,
         overall |-> [status |-> tier.status, level |-> tier.level,
                      message |-> tier.message,
                      recommendation |-> tier.recommendation,
                      score |-> total_score, max_score |-> 12],
         latest_values |-> [RP |-> latest.RP, RRP |-> latest.RRP,
                            Reserves |-> latest.Reserves,
                            Spread |-> latest.Spread_bps,
                            SOFR |-> latest.SOFR, IORB |-> latest.IORB],
         latest_date |-> latest.date]

----------------------------------------------------------------------------
(* The frames the provider's data can produce.                             *)
(*                                                                         *)
(* LevelFrames: the latest row takes every combination of values around    *)
(* the thresholds of the four indicators.  TrendFrames: frames of 1 to     *)
(* MaxRows rows whose reserves column is 'early' in its first k rows and   *)
(* 'late' afterwards (reserve balances are published weekly and carried    *)
(* forward).  After the forward fill a column is missing only before its   *)
(* first value, so a missing 'late' value needs a missing 'early' one.     *)

MaxRows == 31

Nums(S) == {Num(x) : x \in S}

RPVals == {NaN} \cup Nums({10, 20, 21, 30, 31, 50, 55})
RRPVals == {NaN} \cup Nums({50, 100, 150, 200, 250, 300, 350})
ResVals == {NaN} \cup Nums({2900, 3000, 3100, 3200, 3500})
SOFRVals == {NaN} \cup Nums({530, 540, 545, 550, 551, 560, 561, 640, 641})
IORBVal == Num(540)

TrendVals == Nums({0, 2900, 3100, 3500, 3800, 4000})
TrendPairs ==
    {p \in (TrendVals \cup {NaN}) \X (TrendVals \cup {NaN}) :
        p[2].nan => p[1].nan}

\* a one-row frame
LevelFrame(rp, rrp, res, sofr) == <<Row(1, rp, rrp, res, sofr, IORBVal)>>

\* n rows; reserves are 'early' in rows 1..k and 'late' in rows k+1..n
TrendFrame(n, k, early, late) ==
    [i \in 1..n |->
        Row(i, Num(10), Num(350), IF i <= k THEN early ELSE late,
            Num(545), IORBVal)]

EmptyFrame == <<>>

----------------------------------------------------------------------------
(* The session, the configuration and the caches.                          *)
(*                                                                         *)
(* A session_state key that holds a text is a sequence: empty while the    *)
(* key is absent, the one text once it is stored.                          *)

Users == {"alice", "bob"}
Passwords == {"pw1", "pw2"}

\* st.secrets with every key present
FullSecrets ==
    [has_passwords |-> TRUE,
     passwords |-> {<<"alice", "pw1">>},
     FRED_API_KEY |-> TRUE,
     GEMINI_API_KEY |-> TRUE,
     OPENAI_API_KEY |-> TRUE]

\* st.cache_data(ttl=3600)
TTL == 3600

\* a cache is a function from the cached call's arguments to its entry:
\* the value, the time it was stored and the st.error messages recorded
\* with it (replayed when the entry is used)
Entry(value, at, shown) ==
    [stored_at |-> at, value |-> value, shown |-> shown]

ValidForever(cache, key, t) == key \in DOMAIN cache

\* the entry of a key can be used at time t
Valid(cache, key, t) ==
    /\ key \in DOMAIN cache
    /\ t < cache[key].stored_at + TTL

\* the cache after storing an entry under a key
Store(cache, key, entry) ==
    [k \in DOMAIN cache \cup {key} |->
        IF k = key THEN entry ELSE cache[k]]

\* the login form as rendered, nothing submitted
BlankForm == [submit |-> FALSE, username |-> "", password |-> ""]

\* a logged-in session of a fully configured deployment, nothing cached
InitApp ==
    /\ form = BlankForm
    /\ password_correct = TRUE
    /\ liquidity_context = <<>>
    /\ advanced_chat_messages = <<>>
    /\ comprehensive_analysis = <<>>
    /\ single_analysis = <<>>
    /\ secrets = FullSecrets
    /\ GEMINI_AVAILABLE = TRUE
    /\ OPENAI_ENABLED = TRUE
    /\ now = 0
    /\ cache_series = <<>>
    /\ cache_frame = <<>>
    /\ ai_calls = <<>>

----------------------------------------------------------------------------
(* main(): one script run *)

Init ==
    /\ pc = "run"
    /\ df = EmptyFrame
    /\ res_change_30d = ChgUnset
    /\ assessment = <<>>
    /\ rp_change_7d = ChgUnset
    /\ rrp_change_7d = ChgUnset
    /\ risk_signals = <<>>
    /\ screen = <<>>
    /\ report = <<>>
    /\ start_date = 1
    /\ requested = <<>>
    /\ all_data = <<>>
    /\ errors = <<>>
    /\ InitApp

\* df = fetch_liquidity_data(start_date)
FetchLiquidityData ==
    /\ pc = "run"
    /\ \/ df' = EmptyFrame
       \/ \E rp \in RPVals, rrp \in RRPVals, res \in ResVals,
             sofr \in SOFRVals :
              df' = LevelFrame(rp, rrp, res, sofr)
       \/ \E n \in 1..MaxRows, p \in TrendPairs :
              \E k \in 0..(n - 1) : df' = TrendFrame(n, k, p[1], p[2])
    /\ pc' = "fetched"
    /\ UNCHANGED <<res_change_30d, assessment, sigvars, fetchvars>>
    /\ UNCHANGED appvars

\* if df.empty: st.error(...); return
MainEmptyFrame ==
    /\ pc = "fetched"
    /\ Len(df) = 0
    /\ pc' = "error"
    /\ errors' = Append(errors, "no data")
    /\ UNCHANGED <<df, res_change_30d, assessment, sigvars>>
    /\ UNCHANGED <<start_date, requested, all_data>>
    /\ UNCHANGED appvars

\* assessment = assess_liquidity_status(df)
MainAssess ==
    /\ pc = "fetched"
    /\ Len(df) > 0
    /\ res_change_30d' = ResChange30d(df)
    /\ assessment' = AssessLiquidityStatus(df)
    /\ pc' = "assessed"
    /\ UNCHANGED <<df, sigvars, fetchvars>>
    /\ UNCHANGED appvars

\* the script runs again from the top (a widget event or a refresh)
Rerun ==
    /\ pc \in {"assessed", "error", "reported"}
    /\ pc' = "run"
    /\ df' = EmptyFrame
    /\ res_change_30d' = ChgUnset
    /\ assessment' = <<>>
    /\ rp_change_7d' = ChgUnset
    /\ rrp_change_7d' = ChgUnset
    /\ risk_signals' = <<>>
    /\ screen' = <<>>
    /\ report' = <<>>
    /\ requested' = <<>>
    /\ all_data' = <<>>
    /\ errors' = <<>>
    /\ UNCHANGED start_date
    /\ UNCHANGED appvars

Next ==
    \/ FetchLiquidityData
    \/ MainEmptyFrame
    \/ MainAssess
    \/ Rerun

Spec == Init /\ [][Next]_vars

----------------------------------------------------------------------------
(* main(): the risk-signal section and the text report *)

\* abs(c) > t for a change c and an integer t
ChgAbsGt(c, t) ==
    \/ c.kind \in {"inf", "ninf"}
    \/ c.kind = "num" /\ (c.n > t * c.d \/ 0 - c.n > t * c.d)

\* x != 0 on float64 (NaN != 0 is true)
NonZero(x) == x.nan \/ x.v # 0

Change7dUnguarded(frame, col) ==
    PctChange(Iloc(frame, 1)[col], Iloc(frame, 7)[col])

\* ((last - iloc[-7]) / iloc[-7]) * 100 if iloc[-7] != 0 else 0
Change7d(frame, col) ==
    IF NonZero(Iloc(frame, 7)[col])
    THEN PctChange(Iloc(frame, 1)[col], Iloc(frame, 7)[col])
    ELSE ChgZero

LevelSignal(indicator, message) ==
    [kind |-> "level", indicator |-> indicator, message |-> message,
     change |-> ChgUnset]

MoveSignal(indicator, change) ==
    [kind |-> "move", indicator |-> indicator, message |-> "",
     change |-> change]

AllClear ==
    [kind |-> "all clear", indicator |-> "", message |-> "",
     change |-> ChgUnset]

RECURSIVE LevelSignals(_, _)
\* for indicator in [...]: if score <= 1: risk_signals.append(...)
LevelSignals(a, i) ==
    IF i > Len(Indicators) THEN <<>>
    ELSE (IF a.assessments[Indicators[i]].score <= 1
          THEN <<LevelSignal(Indicators[i],
                             a.assessments[Indicators[i]].message)>>
          ELSE <<>>) \o LevelSignals(a, i + 1)

MoveSignalsSigned(frame, rp_change, rrp_change) ==
    IF Len(frame) >= 7
    THEN (IF rp_change.kind = "inf"
             \/ (rp_change.kind = "num" /\ rp_change.n > 50 * rp_change.d)
          THEN <<MoveSignal("RP", rp_change)>> ELSE <<>>)
         \o (IF rrp_change.kind = "inf"
                \/ (rrp_change.kind = "num"
                        /\ rrp_change.n > 30 * rrp_change.d)
             THEN <<MoveSignal("RRP", rrp_change)>> ELSE <<>>)
    ELSE <<>>

\* the abrupt-move entries, RP then RRP
MoveSignals(frame, rp_change, rrp_change) ==
    IF Len(frame) >= 7
    THEN (IF ChgAbsGt(rp_change, 50)
          THEN <<MoveSignal("RP", rp_change)>> ELSE <<>>)
         \o (IF ChgAbsGt(rrp_change, 30)
             THEN <<MoveSignal("RRP", rrp_change)>> ELSE <<>>)
    ELSE <<>>

RenderSignalsAlways(signals) ==
    [i \in 1..Len(signals) |-> [widget |-> "warning", entry |-> signals[i]]]
        \o <<[widget |-> "success", entry |-> AllClear]>>

\* st.warning for every signal, or the st.success all-clear line
RenderSignals(signals) ==
    IF Len(signals) > 0
    THEN [i \in 1..Len(signals) |->
              [widget |-> "warning", entry |-> signals[i]]]
    ELSE <<[widget |-> "success", entry |-> AllClear]>>

\* chr(10).join(risk_signals) if risk_signals else the all-clear line
ReportSignals(signals) ==
    IF Len(signals) > 0 THEN signals ELSE <<AllClear>>

\* frames whose RP and RRP columns move: the first k rows hold the early
\* values, the later rows the late ones
MaxMoveRows == 8

RPMoveVals == Nums({0, 10, 15, 16, 55})
RRPMoveVals == Nums({0, 100, 130, 131, 350})
RPMovePairs ==
    {p \in (RPMoveVals \cup {NaN}) \X (RPMoveVals \cup {NaN}) :
        p[2].nan => p[1].nan}
RRPMovePairs ==
    {p \in (RRPMoveVals \cup {NaN}) \X (RRPMoveVals \cup {NaN}) :
        p[2].nan => p[1].nan}
MoveLevels ==
    {<<Num(3500), Num(545)>>, <<Num(2900), Num(545)>>,
     <<Num(3500), Num(561)>>}

MoveFrame(n, k, rp, rrp, lv) ==
    [i \in 1..n |->
        Row(i, IF i <= k THEN rp[1] ELSE rp[2],
            IF i <= k THEN rrp[1] ELSE rrp[2], lv[1], lv[2], IORBVal)]

\* df = fetch_liquidity_data(start_date), the provider's RP and RRP moving
FetchLiquidityDataMoves ==
    /\ pc = "run"
    /\ \/ df' = EmptyFrame
       \/ \E n \in 1..MaxMoveRows, rp \in RPMovePairs, rrp \in RRPMovePairs,
             lv \in MoveLevels :
              \E k \in 0..(n - 1) : df' = MoveFrame(n, k, rp, rrp, lv)
    /\ pc' = "fetched"
    /\ UNCHANGED <<res_change_30d, assessment, sigvars, fetchvars>>
    /\ UNCHANGED appvars

\* the risk-signal section of main()
MainRiskSignals ==
    /\ pc = "assessed"
    /\ LET rp == IF Len(df) >= 7 THEN Change7d(df, "RP") ELSE ChgUnset
           rrp == IF Len(df) >= 7 THEN Change7d(df, "RRP") ELSE ChgUnset
           signals == LevelSignals(assessment, 1) \o MoveSignals(df, rp, rrp)
       IN  /\ rp_change_7d' = rp
           /\ rrp_change_7d' = rrp
           /\ risk_signals' = signals
           /\ screen' = RenderSignals(signals)
    /\ pc' = "signalled"
    /\ UNCHANGED <<df, res_change_30d, assessment, report, fetchvars>>
    /\ UNCHANGED appvars

\* the text report of main()
MainReport ==
    /\ pc = "signalled"
    /\ report' = ReportSignals(risk_signals)
    /\ pc' = "reported"
    /\ UNCHANGED <<df, res_change_30d, assessment, fetchvars>>
    /\ UNCHANGED <<rp_change_7d, rrp_change_7d, risk_signals, screen>>
    /\ UNCHANGED appvars

NextSignals ==
    \/ FetchLiquidityDataMoves
    \/ MainEmptyFrame
    \/ MainAssess
    \/ MainRiskSignals
    \/ MainReport
    \/ Rerun

SpecSignals == Init /\ [][NextSignals]_vars

----------------------------------------------------------------------------
(* fetch_data_with_ffill and fetch_liquidity_data on the provider's data   *)
(*                                                                         *)
(* A series is a sequence of observations [date, val] in ascending date    *)
(* order; dates are day numbers.  The provider answers a request with an   *)
(* error or with a series, whose values may be missing (NaN).              *)

SERIES_IDS ==
    [RP |-> "RPONTSYD", RRP |-> "RRPONTSYD", Reserves |-> "WRESBAL",
     SOFR |-> "SOFR", IORB |-> "IORB"]

\* the order of the five fetch_data_with_ffill calls
SeriesOrder == <<"RP", "RRP", "Reserves", "SOFR", "IORB">>

Obs(date, val) == [date |-> date, val |-> val]

RECURSIVE LastPresent(_, _)
\* the latest present value among the first i observations of a series
LastPresent(series, i) ==
    IF i = 0 THEN NaN
    ELSE IF ~series[i].val.nan THEN series[i].val
    ELSE LastPresent(series, i - 1)

\* data.ffill()
FfillSeries(series) ==
    [i \in 1..Len(series) |-> Obs(series[i].date, LastPresent(series, i))]

FetchResultEmptyOnNaN(resp) ==
    IF resp.ok /\ Len(resp.data) > 0
          /\ \A i \in 1..Len(resp.data) : ~resp.data[i].val.nan
    THEN FfillSeries(resp.data)
    ELSE <<>>

\* what fetch_data_with_ffill returns for the provider's answer
FetchResult(resp) ==
    IF resp.ok /\ Len(resp.data) > 0 THEN FfillSeries(resp.data)
    ELSE <<>>

FetchErrorsSilent(shown, resp, col) == shown

\* st.error(...) in the except branch
FetchErrors(shown, resp, col) ==
    IF resp.ok THEN shown ELSE Append(shown, SERIES_IDS[col])

SeriesDates(series) == {series[i].date : i \in 1..Len(series)}

\* the ascending sequence of a finite set of integers
SortedSeq(S) ==
    [i \in 1..Cardinality(S) |->
        CHOOSE x \in S : Cardinality({y \in S : y < x}) = i - 1]

\* the cell of a series at a date of the joined index
ValueAt(series, date) ==
    IF date \in SeriesDates(series)
    THEN (CHOOSE o \in {series[i] : i \in 1..Len(series)} :
              o.date = date).val
    ELSE NaN

RawColumns == {"RP", "RRP", "Reserves", "SOFR", "IORB"}

JoinInner(data) ==
    LET dates == SortedSeq({d \in SeriesDates(data[1]) :
                               \A c \in 2..Len(data) :
                                   d \in SeriesDates(data[c])})
    IN  [i \in 1..Len(dates) |->
            [date |-> dates[i],
             RP |-> ValueAt(data[1], dates[i]),
             RRP |-> ValueAt(data[2], dates[i]),
             Reserves |-> ValueAt(data[3], dates[i]),
             SOFR |-> ValueAt(data[4], dates[i]),
             IORB |-> ValueAt(data[5], dates[i])]]

\* pd.DataFrame(all_data): the outer join on the union of the dates
Join(data) ==
    LET dates == SortedSeq(UNION {SeriesDates(data[c]) : c \in 1..Len(data)})
    IN  [i \in 1..Len(dates) |->
            [date |-> dates[i],
             RP |-> ValueAt(data[1], dates[i]),
             RRP |-> ValueAt(data[2], dates[i]),
             Reserves |-> ValueAt(data[3], dates[i]),
             SOFR |-> ValueAt(data[4], dates[i]),
             IORB |-> ValueAt(data[5], dates[i])]]

RECURSIVE LastPresentCell(_, _, _)
\* the latest present cell of a column among the first i rows
LastPresentCell(frame, col, i) ==
    IF i = 0 THEN NaN
    ELSE IF ~frame[i][col].nan THEN frame[i][col]
    ELSE LastPresentCell(frame, col, i - 1)

FfillFrameNone(frame) == frame

\* df.ffill()
FfillFrame(frame) ==
    [i \in 1..Len(frame) |->
        [c \in DOMAIN frame[i] |->
            IF c = "date" THEN frame[i].date
            ELSE LastPresentCell(frame, c, i)]]

\* df[df.index >= start_date]
Truncate(frame, start) ==
    LET keep == {i \in 1..Len(frame) : frame[i].date >= start}
        idx == SortedSeq(keep)
    IN  [i \in 1..Len(idx) |-> frame[idx[i]]]

\* df['Spread_bps'] = (df['SOFR'] - df['IORB']) * 100
WithSpread(frame) ==
    [i \in 1..Len(frame) |->
        Row(frame[i].date, frame[i].RP, frame[i].RRP, frame[i].Reserves,
            frame[i].SOFR, frame[i].IORB)]

(* Moving averages.  A moving-average cell is the record [nan, n, d]: the  *)
(* mean n/d of d present values, or NaN when the window holds none.        *)

MeanNaN == [nan |-> TRUE, n |-> 0, d |-> 1]
Mean(sum, count) == [nan |-> FALSE, n |-> sum, d |-> count]

\* the twelve moving-average columns: source column and window
MATable ==
    [RP_MA7 |-> [col |-> "RP", window |-> 7],
     RP_MA30 |-> [col |-> "RP", window |-> 30],
     RP_MA60 |-> [col |-> "RP", window |-> 60],
     RRP_MA7 |-> [col |-> "RRP", window |-> 7],
     RRP_MA30 |-> [col |-> "RRP", window |-> 30],
     RRP_MA60 |-> [col |-> "RRP", window |-> 60],
     Reserves_MA7 |-> [col |-> "Reserves", window |-> 7],
     Reserves_MA30 |-> [col |-> "Reserves", window |-> 30],
     Reserves_MA60 |-> [col |-> "Reserves", window |-> 60],
     Spread_bps_MA7 |-> [col |-> "Spread_bps", window |-> 7],
     Spread_bps_MA30 |-> [col |-> "Spread_bps", window |-> 30],
     Spread_bps_MA60 |-> [col |-> "Spread_bps", window |-> 60]]

RECURSIVE WindowAcc(_, _, _, _)
\* <<sum, count>> of the present values of a column in rows lo..hi
WindowAcc(frame, col, lo, hi) ==
    IF hi < lo THEN <<0, 0>>
    ELSE LET acc == WindowAcc(frame, col, lo, hi - 1)
         IN  IF frame[hi][col].nan THEN acc
             ELSE <<acc[1] + frame[hi][col].v, acc[2] + 1>>

RollingMeanFullWindow(frame, col, window, i) ==
    LET acc == WindowAcc(frame, col, i - window + 1, i)
    IN  IF i - window + 1 < 1 \/ acc[2] = 0 THEN MeanNaN
        ELSE Mean(acc[1], acc[2])

RollingMeanWide(frame, col, window, i) ==
    LET lo == IF i - window < 1 THEN 1 ELSE i - window
        acc == WindowAcc(frame, col, lo, i)
    IN  IF acc[2] = 0 THEN MeanNaN ELSE Mean(acc[1], acc[2])

\* df[col].rolling(window=window, min_periods=1).mean() at row i
RollingMean(frame, col, window, i) ==
    LET lo == IF i - window + 1 < 1 THEN 1 ELSE i - window + 1
        acc == WindowAcc(frame, col, lo, i)
    IN  IF acc[2] = 0 THEN MeanNaN ELSE Mean(acc[1], acc[2])

AddMovingAveragesDropFirst(frame) ==
    LET rest == IF Len(frame) > 1 THEN Tail(frame) ELSE frame
    IN  [i \in 1..Len(rest) |->
            [m \in DOMAIN MATable |->
                RollingMean(rest, MATable[m].col, MATable[m].window, i)]
            @@ rest[i]]

\* the loop that assigns the MA7, MA30 and MA60 columns
AddMovingAverages(frame) ==
    [i \in 1..Len(frame) |->
        [m \in DOMAIN MATable |->
            RollingMean(frame, MATable[m].col, MATable[m].window, i)]
        @@ frame[i]]

BuildFrameTruncateFirst(data, start) ==
    AddMovingAverages(WithSpread(FfillFrame(Truncate(Join(data), start))))

\* the frame fetch_liquidity_data builds from the five fetched series
BuildFrame(data, start) ==
    AddMovingAverages(WithSpread(Truncate(FfillFrame(Join(data)), start)))

----------------------------------------------------------------------------
(* One script run on the provider's answers.                               *)
(*                                                                         *)
(* The provider holds, for every date 1..MaxDate, one value per series; an *)
(* answer is an error, or the series of the dates it publishes, a          *)
(* published value being present or missing.  RP takes every such answer,  *)
(* the other series the full, the every-second-day and the empty series.   *)

MaxDate == 3

ProviderValue(col, date) ==
    CASE col = "RP" -> Num(20 * date - 5)
      [] col = "RRP" -> Num(400 - 100 * date)
      [] col = "Reserves" -> Num(3300 - 100 * date)
      [] col = "SOFR" -> Num(540 + 10 * date)
      [] OTHER -> IORBVal

AllShapes == [1..MaxDate -> {"absent", "nan", "val"}]

SmallShapes ==
    {[d \in 1..MaxDate |-> "val"],
     [d \in 1..MaxDate |-> IF d % 2 = 0 THEN "val" ELSE "absent"],
     [d \in 1..MaxDate |-> "absent"]}

SeriesOf(col, shape) ==
    LET dates == SortedSeq({d \in 1..MaxDate : shape[d] # "absent"})
    IN  [i \in 1..Len(dates) |->
            Obs(dates[i],
                IF shape[dates[i]] = "nan" THEN NaN
                ELSE ProviderValue(col, dates[i]))]

ProviderError == [ok |-> FALSE, data |-> <<>>]

\* the answers fred.get_series can give for a series
Responses(col) ==
    {ProviderError} \cup
    {[ok |-> TRUE, data |-> SeriesOf(col, shape)] :
        shape \in IF col = "RP" THEN AllShapes ELSE SmallShapes}

InitFetch ==
    /\ pc = "run"
    /\ df = EmptyFrame
    /\ res_change_30d = ChgUnset
    /\ assessment = <<>>
    /\ rp_change_7d = ChgUnset
    /\ rrp_change_7d = ChgUnset
    /\ risk_signals = <<>>
    /\ screen = <<>>
    /\ report = <<>>
    /\ start_date \in 1..MaxDate
    /\ requested = <<>>
    /\ all_data = <<>>
    /\ errors = <<>>
    /\ InitApp

\* one fetch_data_with_ffill call of fetch_liquidity_data
FetchDataWithFfill ==
    /\ pc = "run"
    /\ Len(requested) < Len(SeriesOrder)
    /\ LET col == SeriesOrder[Len(requested) + 1]
       IN  \E resp \in Responses(col) :
               /\ requested' =
                      Append(requested,
                             [series_id |-> SERIES_IDS[col],
                              observation_start |-> start_date,
                              response |-> resp])
               /\ all_data' = Append(all_data, FetchResult(resp))
               /\ errors' = FetchErrors(errors, resp, col)
    /\ UNCHANGED <<pc, df, res_change_30d, assessment, sigvars, start_date>>
    /\ UNCHANGED appvars

\* the frame construction of fetch_liquidity_data; main() gets the frame
MainBuildFrame ==
    /\ pc = "run"
    /\ Len(requested) = Len(SeriesOrder)
    /\ df' = BuildFrame(all_data, start_date)
    /\ pc' = "fetched"
    /\ UNCHANGED <<res_change_30d, assessment, sigvars, fetchvars>>
    /\ UNCHANGED appvars

MainLoadFailedNoReturn ==
    /\ pc = "run"
    /\ Len(requested) = Len(SeriesOrder)
    /\ errors' = Append(errors, "load failed")
    /\ pc' = "assessed"
    /\ UNCHANGED <<df, res_change_30d, assessment, sigvars>>
    /\ UNCHANGED <<start_date, requested, all_data>>
    /\ UNCHANGED appvars

\* except Exception: st.error(...); return -- the frame construction raised
MainLoadFailed ==
    /\ pc = "run"
    /\ Len(requested) = Len(SeriesOrder)
    /\ errors' = Append(errors, "load failed")
    /\ pc' = "error"
    /\ UNCHANGED <<df, res_change_30d, assessment, sigvars>>
    /\ UNCHANGED <<start_date, requested, all_data>>
    /\ UNCHANGED appvars

NextFetch ==
    \/ FetchDataWithFfill
    \/ MainBuildFrame
    \/ MainLoadFailed
    \/ MainEmptyFrame
    \/ MainAssess
    \/ MainRiskSignals
    \/ MainReport
    \/ Rerun

SpecFetch == InitFetch /\ [][NextFetch]_vars

----------------------------------------------------------------------------
(* Long frames for the moving averages.                                    *)
(*                                                                         *)
(* Up to MaxMARows rows, one per day.  RP starts after `lead` rows (the    *)
(* other series start earlier), RRP is missing throughout when its fetch   *)
(* failed.                                                                 *)

MaxMARows == 61

Leads(n) == {m \in {0, 1, 8, n} : m <= n}

LongFrame(n, lead, rrp_failed) ==
    [i \in 1..n |->
        Row(i,
            IF i <= lead THEN NaN ELSE Num((7 * i) % 23),
            IF rrp_failed THEN NaN ELSE Num(400 - 5 * i),
            Num(3000 + 10 * i),
            Num(540 + 5 * (i % 4)),
            IORBVal)]

\* fetch_liquidity_data returning a long frame with its MA columns
FetchLiquidityDataLong ==
    /\ pc = "run"
    /\ \E n \in 1..MaxMARows, rrp_failed \in BOOLEAN :
           \E lead \in Leads(n) :
               df' = AddMovingAverages(LongFrame(n, lead, rrp_failed))
    /\ pc' = "fetched"
    /\ UNCHANGED <<res_change_30d, assessment, sigvars, fetchvars>>
    /\ UNCHANGED appvars

NextMA ==
    \/ FetchLiquidityDataLong
    \/ MainAssess
    \/ Rerun

SpecMA == Init /\ [][NextMA]_vars

----------------------------------------------------------------------------
(* The engine of src/apptest2.py, translated from that file.  Only the     *)
(* float64 and pandas primitives (cells, changes, the outer join, ffill,   *)
(* the rolling mean) are shared with the translation of src/app.py.        *)

T2_WARNING_LEVELS ==
    [RP       |-> [normal |-> 20, warning |-> 30, danger |-> 50],
     RRP      |-> [danger |-> 100, warning |-> 200, normal |-> 300],
     Reserves |-> [danger |-> 3000, warning |-> 3200],
     Spread   |-> [normal |-> 10, warning |-> 20, danger |-> 100]]

\* fetch_data_with_ffill of apptest2.py
T2_FetchResult(resp) ==
    IF ~resp.ok THEN <<>>
    ELSE IF Len(resp.data) > 0 THEN FfillSeries(resp.data)
    ELSE <<>>

\* df[df.index >= start_date]
T2_Truncate(frame, start) ==
    SelectSeq(frame, LAMBDA row : row.date >= start)

\* df['Spread_bps'] = (df['SOFR'] - df['IORB']) * 100
T2_WithSpread(frame) ==
    [i \in 1..Len(frame) |->
        [Spread_bps |->
            IF frame[i].SOFR.nan \/ frame[i].IORB.nan THEN NaN
            ELSE Num(frame[i].SOFR.v - frame[i].IORB.v)]
        @@ frame[i]]

\* the MA7, MA30 and MA60 columns of RP, RRP, Reserves and Spread_bps
T2_MA(frame, i) ==
    [RP_MA7 |-> RollingMean(frame, "RP", 7, i),
     RP_MA30 |-> RollingMean(frame, "RP", 30, i),
     RP_MA60 |-> RollingMean(frame, "RP", 60, i),
     RRP_MA7 |-> RollingMean(frame, "RRP", 7, i),
     RRP_MA30 |-> RollingMean(frame, "RRP", 30, i),
     RRP_MA60 |-> RollingMean(frame, "RRP", 60, i),
     Reserves_MA7 |-> RollingMean(frame, "Reserves", 7, i),
     Reserves_MA30 |-> RollingMean(frame, "Reserves", 30, i),
     Reserves_MA60 |-> RollingMean(frame, "Reserves", 60, i),
     Spread_bps_MA7 |-> RollingMean(frame, "Spread_bps", 7, i),
     Spread_bps_MA30 |-> RollingMean(frame, "Spread_bps", 30, i),
     Spread_bps_MA60 |-> RollingMean(frame, "Spread_bps", 60, i)]

\* fetch_liquidity_data of apptest2.py on the five answers
T2_FetchLiquidityData(responses, start) ==
    LET data == [c \in 1..Len(responses) |-> T2_FetchResult(responses[c])]
        joined == Join(data)
        filled == FfillFrame(joined)
        kept == T2_Truncate(filled, start)
        spread == T2_WithSpread(kept)
    IN  [i \in 1..Len(spread) |-> T2_MA(spread, i) @@ spread[i]]

T2_RPStatus(rp_val) ==
    IF Gt(rp_val, T2_WARNING_LEVELS.RP.danger)
    THEN Status("DANGER", 0, "RP surge - urgent liquidity demand")
    ELSE IF Gt(rp_val, T2_WARNING_LEVELS.RP.warning)
    THEN Status("WARNING", 1, "RP rising - short-term funding demand up")
    ELSE IF Gt(rp_val, T2_WARNING_LEVELS.RP.normal)
    THEN Status("CAUTION", 2, "RP near the upper normal bound")
    ELSE Status("NORMAL", 3, "RP stable")

T2_RRPStatus(rrp_val) ==
    IF Lt(rrp_val, T2_WARNING_LEVELS.RRP.danger)
    THEN Status("DANGER", 0, "RRP extreme low - market cash shortage")
    ELSE IF Lt(rrp_val, T2_WARNING_LEVELS.RRP.warning)
    THEN Status("WARNING", 1, "RRP low - liquidity falling")
    ELSE IF Lt(rrp_val, T2_WARNING_LEVELS.RRP.normal)
    THEN Status("CAUTION", 2, "RRP near the lower normal bound")
    ELSE Status("NORMAL", 3, "RRP ample")

T2_ResChange30d(frame) ==
    IF Len(frame) >= 30
    THEN PctChange(frame[Len(frame)].Reserves,
                   frame[Len(frame) - 29].Reserves)
    ELSE ChgZero

T2_ResStatus(res_val, change) ==
    IF Lt(res_val, T2_WARNING_LEVELS.Reserves.danger)
    THEN Status("DANGER", 0, "Reserves at danger level")
    ELSE IF Lt(res_val, T2_WARNING_LEVELS.Reserves.warning)
    THEN Status("WARNING", 1, "Reserves on a declining trend")
    ELSE IF ChgLt(change, -5)
    THEN Status("CAUTION", 2, "Reserves falling sharply")
    ELSE Status("NORMAL", 3, "Reserves stable")

T2_SpreadStatus(spread_val) ==
    IF Gt(spread_val, T2_WARNING_LEVELS.Spread.danger)
    THEN Status("DANGER", 0, "Spread extreme widening - liquidity crisis")
    ELSE IF Gt(spread_val, T2_WARNING_LEVELS.Spread.warning)
    THEN Status("WARNING", 1, "Spread widening - funding pressure")
    ELSE IF Gt(spread_val, T2_WARNING_LEVELS.Spread.normal)
    THEN Status("CAUTION", 2, "Spread near the upper normal bound")
    ELSE Status("NORMAL", 3, "Spread stable")

T2_Overall(total_score) ==
    CASE total_score >= 10 ->
             [status |-> "good", level |-> "NORMAL",
              message |-> "All liquidity indicators are in the normal range.",
              recommendation |-> "Keep normal market monitoring"]
      [] total_score < 10 /\ total_score >= 7 ->
             [status |-> "caution", level |-> "CAUTION",
              message |-> "Minor anomalies detected in some indicators.",
              recommendation |-> "Watch market developments closely"]
      [] total_score < 7 /\ total_score >= 4 ->
             [status |-> "warning", level |-> "WARNING",
              message |-> "Liquidity stress signals are appearing.",
              recommendation |-> "Strengthen portfolio risk management"]
      [] OTHER ->
             [status |-> "danger", level |-> "DANGER",
              message |-> "Severe liquidity strain.",
              recommendation |-> "Urgent risk hedging recommended"]

\* assess_liquidity_status of apptest2.py
T2_AssessLiquidityStatus(frame) ==
    LET latest == frame[Len(frame)]
        assessments ==
            [RP |-> T2_RPStatus(latest.RP),
             RRP |-> T2_RRPStatus(latest.RRP),
             Reserves |-> T2_ResStatus(latest.Reserves,
                                       T2_ResChange30d(frame)),
             Spread |-> T2_SpreadStatus(latest.Spread_bps)]
        total_score ==
            assessments.RP.score + assessments.RRP.score
                + assessments.Reserves.score + assessments.Spread.score
    IN  [assessments |-> assessments,
         overall |-> [score |-> total_score, max_score |-> 12]
                         @@ T2_Overall(total_score),
         latest_values |-> [RP |-> latest.RP, RRP |-> latest.RRP,
                            Reserves |-> latest.Reserves,
                            Spread |-> latest.Spread_bps,
                            SOFR |-> latest.SOFR, IORB |-> latest.IORB],
         latest_date |-> latest.date]

(* Both engines on the same inputs: the provider's answers of a run, and   *)
(* the frames of the classifier's thresholds and trend.                    *)

\* fetch_liquidity_data on the threshold and trend frames (no provider call)
FetchLiquidityDataFrames ==
    /\ requested = <<>>
    /\ FetchLiquidityData

NextTwin ==
    \/ FetchDataWithFfill
    \/ MainBuildFrame
    \/ FetchLiquidityDataFrames
    \/ MainEmptyFrame
    \/ MainAssess
    \/ Rerun

SpecTwin == InitFetch /\ [][NextTwin]_vars

----------------------------------------------------------------------------
(* Script runs with the two st.cache_data caches and the clock.            *)
(*                                                                         *)
(* The clock advances in steps of TickLen seconds up to MaxTicks steps.    *)
(* The provider answers RP with an error, with its series or with a        *)
(* revised series, and the other four requests with their series.          *)

MaxTicks == 2
TickLen == 1800

StartDates == {1, 2}

FullSeries(col) == SeriesOf(col, [d \in 1..MaxDate |-> "val"])

RevisedSeries(col) ==
    [i \in 1..MaxDate |-> Obs(i, Num(ProviderValue(col, i).v + 1))]

CacheResponses(col) ==
    IF col = "RP"
    THEN {ProviderError,
          [ok |-> TRUE, data |-> FullSeries(col)],
          [ok |-> TRUE, data |-> RevisedSeries(col)]}
    ELSE {[ok |-> TRUE, data |-> FullSeries(col)]}

\* the cache key of fetch_data_with_ffill(series_id, start_date, name)
SeriesKey(col, start) == <<SERIES_IDS[col], start>>

InitCache ==
    /\ InitFetch
    /\ start_date \in StartDates

\* time passes between two script runs
Tick ==
    /\ pc = "run"
    /\ all_data = <<>>
    /\ now < MaxTicks * TickLen
    /\ now' = now + TickLen
    /\ UNCHANGED <<pc, df, res_change_30d, assessment, sigvars, fetchvars>>
    /\ UNCHANGED <<sessvars, secrets, GEMINI_AVAILABLE, OPENAI_ENABLED>>
    /\ UNCHANGED <<cache_series, cache_frame, ai_calls>>

\* the period selectbox: the start date of this run
SelectPeriod ==
    /\ pc = "run"
    /\ all_data = <<>>
    /\ start_date' \in StartDates
    /\ UNCHANGED <<pc, df, res_change_30d, assessment, sigvars>>
    /\ UNCHANGED <<requested, all_data, errors, appvars>>

\* the user clicks the refresh button: the script runs with the button set
ClickRefresh ==
    /\ pc \in {"assessed", "error"}
    /\ pc' = "refresh"
    /\ df' = EmptyFrame
    /\ res_change_30d' = ChgUnset
    /\ assessment' = <<>>
    /\ requested' = <<>>
    /\ all_data' = <<>>
    /\ errors' = <<>>
    /\ UNCHANGED <<sigvars, start_date, appvars>>

RefreshKeepsCache ==
    /\ pc = "refresh"
    /\ pc' = "run"
    /\ UNCHANGED <<df, res_change_30d, assessment, sigvars, fetchvars>>
    /\ UNCHANGED appvars

\* st.cache_data.clear(); st.rerun()
Refresh ==
    /\ pc = "refresh"
    /\ cache_series' = <<>>
    /\ cache_frame' = <<>>
    /\ pc' = "run"
    /\ UNCHANGED <<df, res_change_30d, assessment, sigvars, fetchvars>>
    /\ UNCHANGED <<sessvars, secrets, GEMINI_AVAILABLE, OPENAI_ENABLED>>
    /\ UNCHANGED <<now, ai_calls>>

\* fetch_liquidity_data(start_date) answered from its cache
CachedFetchLiquidityData ==
    /\ pc = "run"
    /\ all_data = <<>>
    /\ Valid(cache_frame, start_date, now)
    /\ df' = cache_frame[start_date].value
    /\ errors' = errors \o cache_frame[start_date].shown
    /\ pc' = "fetched"
    /\ UNCHANGED <<res_change_30d, assessment, sigvars>>
    /\ UNCHANGED <<start_date, requested, all_data, appvars>>

StoreSeriesOkOnly(cache, key, resp, t, col) ==
    IF resp.ok
    THEN Store(cache, key,
               Entry(FetchResult(resp), t, FetchErrors(<<>>, resp, col)))
    ELSE cache

\* the cache of fetch_data_with_ffill after a call that ran the function
StoreSeries(cache, key, resp, t, col) ==
    Store(cache, key,
          Entry(FetchResult(resp), t, FetchErrors(<<>>, resp, col)))

\* one fetch_data_with_ffill call inside fetch_liquidity_data: answered
\* from its cache, or run against the provider and cached
CachedFetchDataWithFfill ==
    /\ pc = "run"
    /\ Len(all_data) < Len(SeriesOrder)
    /\ Len(all_data) = 0 => ~Valid(cache_frame, start_date, now)
    /\ LET col == SeriesOrder[Len(all_data) + 1]
           key == SeriesKey(col, start_date)
       IN  IF Valid(cache_series, key, now)
           THEN /\ all_data' = Append(all_data, cache_series[key].value)
                /\ errors' = errors \o cache_series[key].shown
                /\ UNCHANGED <<requested, cache_series>>
           ELSE \E resp \in CacheResponses(col) :
                    /\ requested' =
                           Append(requested,
                                  [series_id |-> SERIES_IDS[col],
                                   observation_start |-> start_date,
                                   response |-> resp])
                    /\ all_data' = Append(all_data, FetchResult(resp))
                    /\ errors' = FetchErrors(errors, resp, col)
                    /\ cache_series' =
                           StoreSeries(cache_series, key, resp, now, col)
    /\ UNCHANGED <<pc, df, res_change_30d, assessment, sigvars, start_date>>
    /\ UNCHANGED <<sessvars, secrets, GEMINI_AVAILABLE, OPENAI_ENABLED>>
    /\ UNCHANGED <<now, cache_frame, ai_calls>>

\* fetch_liquidity_data builds the frame, which is cached, and returns it
CachedBuildFrame ==
    /\ pc = "run"
    /\ Len(all_data) = Len(SeriesOrder)
    /\ df' = BuildFrame(all_data, start_date)
    /\ cache_frame' = Store(cache_frame, start_date, Entry(df', now, errors))
    /\ pc' = "fetched"
    /\ UNCHANGED <<res_change_30d, assessment, sigvars, fetchvars>>
    /\ UNCHANGED <<sessvars, secrets, GEMINI_AVAILABLE, OPENAI_ENABLED>>
    /\ UNCHANGED <<now, cache_series, ai_calls>>

\* the frame construction raised: nothing is cached for the frame
CachedLoadFailed ==
    /\ pc = "run"
    /\ Len(all_data) = Len(SeriesOrder)
    /\ errors' = Append(errors, "load failed")
    /\ pc' = "error"
    /\ UNCHANGED <<df, res_change_30d, assessment, sigvars>>
    /\ UNCHANGED <<start_date, requested, all_data, appvars>>

NextCache ==
    \/ Tick
    \/ SelectPeriod
    \/ ClickRefresh
    \/ Refresh
    \/ CachedFetchLiquidityData
    \/ CachedFetchDataWithFfill
    \/ CachedBuildFrame
    \/ CachedLoadFailed
    \/ MainAssess
    \/ Rerun

SpecCache == InitCache /\ [][NextCache]_vars

----------------------------------------------------------------------------
(* The AI entry points.                                                    *)
(*                                                                         *)
(* A text is the record [kind, embedded, detail]: embedded is the set of   *)
(* <<label, value>> items of the assessment written into it, detail the    *)
(* text of the service or of the exception.  An entry point is given the   *)
(* outcome of the external call and yields the returned text and the       *)
(* requests it sent.                                                       *)

AIText(kind, embedded, detail) ==
    [kind |-> kind, embedded |-> embedded, detail |-> detail]

Result(text, calls) == [text |-> text, calls |-> calls]

\* generate_content / chat.completions.create: a text, or an exception
AIOutcomes ==
    {[raised |-> FALSE, msg |-> "generated text"],
     [raised |-> TRUE, msg |-> "429 Resource exhausted"],
     [raised |-> TRUE, msg |-> "Quota exceeded for metric"],
     [raised |-> TRUE, msg |-> "Connection reset by peer"],
     [raised |-> TRUE, msg |-> "Invalid argument"]}

\* "quota" in error_msg.lower() or "429" in error_msg
IsQuota(error_msg) ==
    error_msg \in {"429 Resource exhausted", "Quota exceeded for metric"}

\* the assessment lines of the quota message of generate_gemini_analysis
AssessmentSummary(a) ==
    {<<"overall", a.overall.status>>,
     <<"RP", a.assessments.RP.level>>,
     <<"RRP", a.assessments.RRP.level>>,
     <<"Reserves", a.assessments.Reserves.level>>,
     <<"Spread", a.assessments.Spread.level>>,
     <<"recommendation", a.overall.recommendation>>}

AICall(service, entry) == [service |-> service, entry |-> entry]

GenerateGeminiAnalysisRetry(available, a, outcome) ==
    LET call == AICall("Gemini", "generate_gemini_analysis")
    IN  IF ~available
        THEN Result(AIText("not_configured", {}, "Gemini"), <<>>)
        ELSE IF ~outcome.raised
        THEN Result(AIText("ai", {}, outcome.msg), <<call>>)
        ELSE IF IsQuota(outcome.msg)
        THEN Result(AIText("quota", AssessmentSummary(a), ""),
                    <<call, call>>)
        ELSE Result(AIText("error", {}, outcome.msg), <<call, call>>)

\* generate_gemini_analysis(df, assessment)
GenerateGeminiAnalysis(available, a, outcome) ==
    LET call == AICall("Gemini", "generate_gemini_analysis")
    IN  IF ~available
        THEN Result(AIText("not_configured", {}, "Gemini"), <<>>)
        ELSE IF ~outcome.raised
        THEN Result(AIText("ai", {}, outcome.msg), <<call>>)
        ELSE IF IsQuota(outcome.msg)
        THEN Result(AIText("quota", AssessmentSummary(a), ""), <<call>>)
        ELSE Result(AIText("error", {}, outcome.msg), <<call>>)

GenerateGeminiSingleIndicatorUnguarded(available, a, indicator, outcome) ==
    LET call == AICall("Gemini", "generate_gemini_single_indicator")
    IN  IF ~outcome.raised
        THEN Result(AIText("ai", {}, outcome.msg), <<call>>)
        ELSE IF IsQuota(outcome.msg)
        THEN Result(AIText("quota", {}, ""), <<call>>)
        ELSE Result(AIText("error", {}, outcome.msg), <<call>>)

\* generate_gemini_single_indicator(df, assessment, indicator, depth)
GenerateGeminiSingleIndicator(available, a, indicator, outcome) ==
    LET call == AICall("Gemini", "generate_gemini_single_indicator")
    IN  IF ~available
        THEN Result(AIText("not_configured", {}, "Gemini"), <<>>)
        ELSE IF ~outcome.raised
        THEN Result(AIText("ai", {}, outcome.msg), <<call>>)
        ELSE IF IsQuota(outcome.msg)
        THEN Result(AIText("quota", {}, ""), <<call>>)
        ELSE Result(AIText("error", {}, outcome.msg), <<call>>)

\* generate_gemini_analysis_deep_dive(df, assessment) of apptest2.py
T2_GenerateGeminiAnalysisDeepDive(available, a, outcome) ==
    LET call == AICall("Gemini", "generate_gemini_analysis_deep_dive")
    IN  IF ~available
        THEN Result(AIText("not_configured", {}, "Gemini"), <<>>)
        ELSE IF ~outcome.raised
        THEN Result(AIText("ai", {}, outcome.msg), <<call>>)
        ELSE IF IsQuota(outcome.msg)
        THEN Result(AIText("quota", {}, ""), <<call>>)
        ELSE Result(AIText("error", {}, outcome.msg), <<call>>)

\* generate_gemini_single_indicator of apptest2.py: its quota message
\* carries the indicator's level and message
T2_GenerateGeminiSingleIndicator(available, a, indicator, outcome) ==
    LET call == AICall("Gemini", "generate_gemini_single_indicator")
    IN  IF ~available
        THEN Result(AIText("not_configured", {}, "Gemini"), <<>>)
        ELSE IF ~outcome.raised
        THEN Result(AIText("ai", {}, outcome.msg), <<call>>)
        ELSE IF IsQuota(outcome.msg)
        THEN Result(AIText("quota",
                           {<<indicator, a.assessments[indicator].level>>,
                            <<"message", a.assessments[indicator].message>>},
                           ""),
                    <<call>>)
        ELSE Result(AIText("error", {}, outcome.msg), <<call>>)

\* seq[-n:]
LastN(seq, n) ==
    SubSeq(seq, IF Len(seq) > n THEN Len(seq) - n + 1 ELSE 1, Len(seq))

\* the request query_advanced_chat sends: the context in the system
\* instruction, the history window and the final user prompt
ChatRequest(service, context, history, prompt) ==
    [service |-> service, entry |-> "query_advanced_chat",
     context |-> context, history |-> history, prompt |-> prompt]

\* "User" if msg['role'] == 'user' else "AI"
RoleLabel(msg) ==
    [role |-> IF msg.role = "user" THEN "User" ELSE "AI",
     content |-> msg.content]

QueryAdvancedChatWholeHistory(prompt, context, model_choice, chat_history, gemini, openai, outcome) ==
    LET service == IF model_choice = "Gemini" THEN "Gemini" ELSE "OpenAI"
        enabled == IF model_choice = "Gemini" THEN gemini ELSE openai
        history ==
            IF model_choice = "Gemini"
            THEN [i \in 1..Len(chat_history) |-> RoleLabel(chat_history[i])]
            ELSE chat_history
        request == ChatRequest(service, context, history, prompt)
    IN  IF ~enabled
        THEN Result(AIText("not_configured", {}, service), <<>>)
        ELSE IF ~outcome.raised
        THEN Result(AIText("ai", {}, outcome.msg), <<request>>)
        ELSE Result(AIText("error", {}, outcome.msg), <<request>>)

\* EnhancedDualAIHandler.query_advanced_chat
QueryAdvancedChat(prompt, context, model_choice, chat_history, gemini, openai, outcome) ==
    LET service == IF model_choice = "Gemini" THEN "Gemini" ELSE "OpenAI"
        enabled == IF model_choice = "Gemini" THEN gemini ELSE openai
        history ==
            IF model_choice = "Gemini"
            THEN LET window == LastN(chat_history, 10)
                 IN  [i \in 1..Len(window) |-> RoleLabel(window[i])]
            ELSE LastN(chat_history, 6)
        request == ChatRequest(service, context, history, prompt)
    IN  IF ~enabled
        THEN Result(AIText("not_configured", {}, service), <<>>)
        ELSE IF ~outcome.raised
        THEN Result(AIText("ai", {}, outcome.msg), <<request>>)
        ELSE Result(AIText("error", {}, outcome.msg), <<request>>)

\* the 30-observation change of generate_liquidity_context
ContextChange(frame, col) ==
    LET first == IF Len(frame) >= 30 THEN Iloc(frame, 30) ELSE frame[1]
        rows == IF Len(frame) >= 30 THEN 30 ELSE Len(frame)
    IN  IF rows >= 2 /\ NonZero(first[col])
        THEN PctChange(Iloc(frame, 1)[col], first[col])
        ELSE ChgZero

\* EnhancedDualAIHandler.generate_liquidity_context(df, assessment)
GenerateLiquidityContext(frame, a, t) ==
    LET latest == Iloc(frame, 1)
    IN  [generated |-> t,
         overall |-> a.overall,
         latest_date |-> a.latest_date,
         values |-> [c \in {"RP", "RRP", "Reserves", "Spread_bps"} |->
                        latest[c]],
         changes |-> [c \in {"RP", "RRP", "Reserves", "Spread_bps"} |->
                         ContextChange(frame, c)],
         levels |-> [i \in {"RP", "RRP", "Reserves", "Spread"} |->
                        a.assessments[i].level],
         averages |-> [m \in {"RP_MA7", "RP_MA30", "RRP_MA7", "RRP_MA30",
                              "Reserves_MA7", "Reserves_MA30",
                              "Spread_bps_MA7", "Spread_bps_MA30"} |->
                          latest[m]]]

----------------------------------------------------------------------------
(* A script run from the top: the login gate, the API keys, the pipeline,  *)
(* then the handler of the one widget event that started the run.          *)

\* the deployments: each key of st.secrets present or absent
SecretsChoices ==
    {[has_passwords |-> hp, passwords |-> {<<"alice", "pw1">>},
      FRED_API_KEY |-> fk, GEMINI_API_KEY |-> gk, OPENAI_API_KEY |-> ok] :
        hp \in BOOLEAN, fk \in BOOLEAN, gk \in BOOLEAN, ok \in BOOLEAN}

\* the frames of the dashboard runs: calm, stressed and all-missing
AppFrames ==
    {AddMovingAverages(LevelFrame(Num(10), Num(350), Num(3500), Num(545))),
     AddMovingAverages(LevelFrame(Num(55), Num(50), Num(2900), Num(641))),
     AddMovingAverages(LevelFrame(NaN, NaN, NaN, NaN))}

InitScript ==
    /\ pc = "gate"
    /\ df = EmptyFrame
    /\ res_change_30d = ChgUnset
    /\ assessment = <<>>
    /\ rp_change_7d = ChgUnset
    /\ rrp_change_7d = ChgUnset
    /\ risk_signals = <<>>
    /\ screen = <<>>
    /\ report = <<>>
    /\ start_date = 1
    /\ requested = <<>>
    /\ all_data = <<>>
    /\ errors = <<>>
    /\ liquidity_context = <<>>
    /\ advanced_chat_messages = <<>>
    /\ comprehensive_analysis = <<>>
    /\ single_analysis = <<>>
    /\ form = BlankForm
    /\ GEMINI_AVAILABLE = FALSE
    /\ OPENAI_ENABLED = FALSE
    /\ now = 0
    /\ cache_series = <<>>
    /\ cache_frame = <<>>
    /\ ai_calls = <<>>

\* a new visitor of any deployment
InitGate ==
    /\ InitScript
    /\ password_correct = FALSE
    /\ secrets \in SecretsChoices

\* what a script run leaves alone besides the session and the environment
runlocals == <<df, res_change_30d, assessment, sigvars, fetchvars>>

\* check_password: the flag is set, the script goes on
CheckPasswordPass ==
    /\ pc = "gate"
    /\ password_correct
    /\ form' = BlankForm
    /\ pc' = "keys"
    /\ UNCHANGED <<runlocals, envvars, ai_calls>>
    /\ UNCHANGED <<password_correct, liquidity_context>>
    /\ UNCHANGED <<advanced_chat_messages, comprehensive_analysis>>
    /\ UNCHANGED single_analysis

CredentialsOkAnyUser(s, username, password) ==
    /\ s.has_passwords
    /\ \E entry \in s.passwords : password = entry[2]

\* "passwords" in st.secrets and username in st.secrets["passwords"] and
\* password == st.secrets["passwords"][username]
CredentialsOk(s, username, password) ==
    /\ s.has_passwords
    /\ \E entry \in s.passwords : username = entry[1] /\ password = entry[2]

\* check_password: the form is shown; a submitted form with good
\* credentials sets the flag and reruns, anything else stops the script
CheckPasswordForm ==
    /\ pc = "gate"
    /\ ~password_correct
    /\ \E submit \in BOOLEAN, username \in Users, password \in Passwords :
           /\ form' = [submit |-> submit, username |-> username,
                       password |-> password]
           /\ IF submit /\ CredentialsOk(secrets, username, password)
              THEN /\ password_correct' = TRUE
                   /\ pc' = "gate"
                   /\ UNCHANGED errors
              ELSE /\ password_correct' = FALSE
                   /\ pc' = "stopped"
                   /\ errors' = IF submit THEN Append(errors, "login failed")
                                ELSE errors
    /\ UNCHANGED <<df, res_change_30d, assessment, sigvars>>
    /\ UNCHANGED <<start_date, requested, all_data, envvars, ai_calls>>
    /\ UNCHANGED <<liquidity_context, advanced_chat_messages>>
    /\ UNCHANGED <<comprehensive_analysis, single_analysis>>

LoadKeysNoStop ==
    /\ pc = "keys"
    /\ pc' = "run"
    /\ GEMINI_AVAILABLE' = secrets.GEMINI_API_KEY
    /\ OPENAI_ENABLED' = secrets.OPENAI_API_KEY
    /\ UNCHANGED <<runlocals, sessvars, ai_calls>>
    /\ UNCHANGED <<secrets, now, cache_series, cache_frame>>

\* the API keys: no FRED key stops the script; the AI keys set the globals
LoadKeys ==
    /\ pc = "keys"
    /\ IF ~secrets.FRED_API_KEY
       THEN /\ errors' = Append(errors, "FRED_API_KEY")
            /\ pc' = "stopped"
            /\ UNCHANGED <<GEMINI_AVAILABLE, OPENAI_ENABLED>>
       ELSE /\ GEMINI_AVAILABLE' = secrets.GEMINI_API_KEY
            /\ \E init_ok \in BOOLEAN :
                   OPENAI_ENABLED' = (secrets.OPENAI_API_KEY /\ init_ok)
            /\ pc' = "run"
            /\ UNCHANGED errors
    /\ UNCHANGED <<df, res_change_30d, assessment, sigvars>>
    /\ UNCHANGED <<start_date, requested, all_data, sessvars, ai_calls>>
    /\ UNCHANGED <<secrets, now, cache_series, cache_frame>>

\* df = fetch_liquidity_data(start_date) on the dashboard frames
FetchLiquidityDataApp ==
    /\ pc = "run"
    /\ df' \in AppFrames \cup {EmptyFrame}
    /\ pc' = "fetched"
    /\ UNCHANGED <<res_change_30d, assessment, sigvars, fetchvars, appvars>>

MainStoreContextAlways ==
    /\ pc = "assessed"
    /\ liquidity_context' = <<GenerateLiquidityContext(df, assessment, now)>>
    /\ pc' = "tabs"
    /\ UNCHANGED <<runlocals, envvars, ai_calls>>
    /\ UNCHANGED <<password_correct, advanced_chat_messages>>
    /\ UNCHANGED <<comprehensive_analysis, single_analysis, form>>

\* if 'liquidity_context' not in st.session_state: store the context
MainStoreContext ==
    /\ pc = "assessed"
    /\ liquidity_context' =
           IF liquidity_context = <<>>
           THEN <<GenerateLiquidityContext(df, assessment, now)>>
           ELSE liquidity_context
    /\ pc' = "tabs"
    /\ UNCHANGED <<runlocals, envvars, ai_calls>>
    /\ UNCHANGED <<password_correct, advanced_chat_messages>>
    /\ UNCHANGED <<comprehensive_analysis, single_analysis, form>>

\* the run was started by a widget without a handler of its own
MainNoEvent ==
    /\ pc = "tabs"
    /\ pc' = "done"
    /\ UNCHANGED <<runlocals, appvars>>

\* the comprehensive-analysis button
MainAnalysisButton(outcomes) ==
    /\ pc = "tabs"
    /\ \E outcome \in outcomes :
           LET r == GenerateGeminiAnalysis(GEMINI_AVAILABLE, assessment,
                                           outcome)
           IN  /\ comprehensive_analysis' = <<r.text>>
               /\ ai_calls' = ai_calls \o r.calls
    /\ pc' = "done"
    /\ UNCHANGED <<runlocals, envvars>>
    /\ UNCHANGED <<password_correct, liquidity_context>>
    /\ UNCHANGED <<advanced_chat_messages, single_analysis, form>>

\* the single-indicator analysis button
MainSingleButton(outcomes) ==
    /\ pc = "tabs"
    /\ \E outcome \in outcomes, indicator \in {"RP", "RRP", "Reserves",
                                                "Spread"} :
           LET r == GenerateGeminiSingleIndicator(GEMINI_AVAILABLE,
                                                  assessment, indicator,
                                                  outcome)
           IN  /\ single_analysis' = <<r.text>>
               /\ ai_calls' = ai_calls \o r.calls
    /\ pc' = "done"
    /\ UNCHANGED <<runlocals, envvars>>
    /\ UNCHANGED <<password_correct, liquidity_context>>
    /\ UNCHANGED <<advanced_chat_messages, comprehensive_analysis, form>>

\* the script is run again from the top
ScriptRerun ==
    /\ pc \in {"done", "stopped", "error"}
    /\ pc' = "gate"
    /\ df' = EmptyFrame
    /\ res_change_30d' = ChgUnset
    /\ assessment' = <<>>
    /\ errors' = <<>>
    /\ ai_calls' = <<>>
    /\ GEMINI_AVAILABLE' = FALSE
    /\ OPENAI_ENABLED' = FALSE
    /\ UNCHANGED <<sigvars, start_date, requested, all_data, sessvars>>
    /\ UNCHANGED <<secrets, now, cache_series, cache_frame>>

\* the models of the radio: OpenAI first, then Gemini
AvailableModels ==
    (IF OPENAI_ENABLED THEN <<"OpenAI">> ELSE <<>>)
    \o (IF GEMINI_AVAILABLE THEN <<"Gemini">> ELSE <<>>)

ChatEntry(role, content) == [role |-> role, content |-> content]

\* the quick questions and the typed questions
Questions == {"quick question", "typed question"}

\* the 'clear chat' button
MainClearChat ==
    /\ pc = "tabs"
    /\ advanced_chat_messages' = <<>>
    /\ pc' = "done"
    /\ UNCHANGED <<runlocals, envvars, ai_calls>>
    /\ UNCHANGED <<password_correct, liquidity_context>>
    /\ UNCHANGED <<comprehensive_analysis, single_analysis, form>>

MainChatPromptAnswerFirst(outcomes, limit) ==
    /\ pc = "tabs"
    /\ \E q \in Questions :
           IF AvailableModels = <<>>
           THEN /\ errors' = Append(errors, "no model")
                /\ UNCHANGED <<advanced_chat_messages, ai_calls>>
           ELSE /\ Len(advanced_chat_messages) + 2 <= limit
                /\ \E m \in 1..Len(AvailableModels), outcome \in outcomes :
                       LET prompt == AIText("prompt", {}, q)
                           context == IF liquidity_context = <<>>
                                      THEN <<>>
                                      ELSE liquidity_context[1]
                           r == QueryAdvancedChat(
                                    prompt, context, AvailableModels[m],
                                    advanced_chat_messages, GEMINI_AVAILABLE,
                                    OPENAI_ENABLED, outcome)
                       IN  /\ advanced_chat_messages' =
                                  advanced_chat_messages
                                  \o <<ChatEntry("assistant", r.text),
                                       ChatEntry("user", prompt)>>
                           /\ ai_calls' = ai_calls \o r.calls
                /\ UNCHANGED errors
    /\ pc' = "done"
    /\ UNCHANGED <<df, res_change_30d, assessment, sigvars>>
    /\ UNCHANGED <<start_date, requested, all_data, envvars>>
    /\ UNCHANGED <<password_correct, liquidity_context>>
    /\ UNCHANGED <<comprehensive_analysis, single_analysis, form>>

\* a quick-question click or a typed question (final_prompt)
MainChatPrompt(outcomes, limit) ==
    /\ pc = "tabs"
    /\ \E q \in Questions :
           IF AvailableModels = <<>>
           THEN /\ errors' = Append(errors, "no model")
                /\ UNCHANGED <<advanced_chat_messages, ai_calls>>
           ELSE /\ Len(advanced_chat_messages) + 2 <= limit
                /\ \E m \in 1..Len(AvailableModels), outcome \in outcomes :
                       LET prompt == AIText("prompt", {}, q)
                           history == Append(advanced_chat_messages,
                                             ChatEntry("user", prompt))
                           context == IF liquidity_context = <<>>
                                      THEN <<>>
                                      ELSE liquidity_context[1]
                           r == QueryAdvancedChat(
                                    prompt, context, AvailableModels[m],
                                    history, GEMINI_AVAILABLE,
                                    OPENAI_ENABLED, outcome)
                       IN  /\ advanced_chat_messages' =
                                  Append(history,
                                         ChatEntry("assistant", r.text))
                           /\ ai_calls' = ai_calls \o r.calls
                /\ UNCHANGED errors
    /\ pc' = "done"
    /\ UNCHANGED <<df, res_change_30d, assessment, sigvars>>
    /\ UNCHANGED <<start_date, requested, all_data, envvars>>
    /\ UNCHANGED <<password_correct, liquidity_context>>
    /\ UNCHANGED <<comprehensive_analysis, single_analysis, form>>

\* apptest2.py: the comprehensive-analysis button with its depth slider
T2_MainAnalysisButton ==
    /\ pc = "tabs"
    /\ \E outcome \in AIOutcomes, depth \in {"summary", "basic", "deep"} :
           LET r == IF depth = "deep"
                    THEN T2_GenerateGeminiAnalysisDeepDive(
                             GEMINI_AVAILABLE, assessment, outcome)
                    ELSE GenerateGeminiAnalysis(GEMINI_AVAILABLE, assessment,
                                                outcome)
           IN  /\ comprehensive_analysis' = <<r.text>>
               /\ ai_calls' = ai_calls \o r.calls
    /\ pc' = "done"
    /\ UNCHANGED <<runlocals, envvars>>
    /\ UNCHANGED <<password_correct, liquidity_context>>
    /\ UNCHANGED <<advanced_chat_messages, single_analysis, form>>

\* apptest2.py: the single-indicator analysis button
T2_MainSingleButton ==
    /\ pc = "tabs"
    /\ \E outcome \in AIOutcomes, indicator \in {"RP", "RRP", "Reserves",
                                                  "Spread"} :
           LET r == T2_GenerateGeminiSingleIndicator(
                        GEMINI_AVAILABLE, assessment, indicator, outcome)
           IN  /\ single_analysis' = <<r.text>>
               /\ ai_calls' = ai_calls \o r.calls
    /\ pc' = "done"
    /\ UNCHANGED <<runlocals, envvars>>
    /\ UNCHANGED <<password_correct, liquidity_context>>
    /\ UNCHANGED <<advanced_chat_messages, comprehensive_analysis, form>>

\* the outcomes that tell the branches of the gate apart
GateOutcomes ==
    {[raised |-> FALSE, msg |-> "generated text"],
     [raised |-> TRUE, msg |-> "Connection reset by peer"]}

\* one chat turn is enough behind the gate
GateChat == 2

NextGate ==
    \/ CheckPasswordPass
    \/ CheckPasswordForm
    \/ LoadKeys
    \/ FetchLiquidityDataApp
    \/ MainEmptyFrame
    \/ MainAssess
    \/ MainStoreContext
    \/ MainNoEvent
    \/ MainAnalysisButton(GateOutcomes)
    \/ MainSingleButton(GateOutcomes)
    \/ MainChatPrompt(GateOutcomes, GateChat)
    \/ MainClearChat
    \/ ScriptRerun

SpecGate == InitGate /\ [][NextGate]_vars

\* a logged-in session of a deployment with the data-provider key
InitAI ==
    /\ InitScript
    /\ password_correct = TRUE
    /\ secrets \in {s \in SecretsChoices :
                        s.has_passwords /\ s.FRED_API_KEY}

\* one chat turn per session next to the analyses
AIChat == 2

\* the handlers of app.py and of apptest2.py over every outcome of the
\* external call
NextAI ==
    \/ CheckPasswordPass
    \/ LoadKeys
    \/ FetchLiquidityDataApp
    \/ MainEmptyFrame
    \/ MainAssess
    \/ MainStoreContext
    \/ MainNoEvent
    \/ MainAnalysisButton(AIOutcomes)
    \/ MainSingleButton(AIOutcomes)
    \/ T2_MainAnalysisButton
    \/ T2_MainSingleButton
    \/ MainChatPrompt(AIOutcomes, AIChat)
    \/ MainClearChat
    \/ ScriptRerun

SpecAI == InitAI /\ [][NextAI]_vars

\* the longest chat history followed: longer than both history windows
MaxChat == 12

\* a logged-in session with both AI keys or with none
InitChat ==
    /\ InitScript
    /\ password_correct = TRUE
    /\ secrets \in {s \in SecretsChoices :
                        /\ s.has_passwords
                        /\ s.FRED_API_KEY
                        /\ s.GEMINI_API_KEY = s.OPENAI_API_KEY}

NextChat ==
    \/ CheckPasswordPass
    \/ LoadKeys
    \/ FetchLiquidityDataApp
    \/ MainEmptyFrame
    \/ MainAssess
    \/ MainStoreContext
    \/ MainNoEvent
    \/ MainChatPrompt(GateOutcomes, MaxChat)
    \/ MainClearChat
    \/ ScriptRerun

SpecChat == InitChat /\ [][NextChat]_vars

----------------------------------------------------------------------------
(* Properties *)

Assessed == pc = "assessed"
Latest == Iloc(df, 1)
ScoreNow(ind) == assessment.assessments[ind].score
LevelNow(ind) == assessment.assessments[ind].level
LevelOfScore(s) ==
    CASE s = 0 -> "DANGER" [] s = 1 -> "WARNING" [] s = 2 -> "CAUTION"
      [] OTHER -> "NORMAL"

\* a present value below / above / equal to a bound
Below(x, t) == ~x.nan /\ x.v < t
Above(x, t) == ~x.nan /\ x.v > t
Is(x, t) == ~x.nan /\ x.v = t

\* C1: reserves are classified by first match, most severe first: r < 3000
\* danger (0), else r < 3200 warning (1), else change < -5 caution (2), else
\* normal (3); below 3200 the trend never decides, and 3500 after 3800 is
\* caution.
C1_ReservesFirstMatch ==
    Assessed =>
        LET r == Latest.Reserves
            expected ==
                IF Below(r, 3000) THEN 0
                ELSE IF Below(r, 3200) THEN 1
                ELSE IF ChgLt(res_change_30d, -5) THEN 2
                ELSE 3
        IN  /\ ScoreNow("Reserves") = expected
            /\ LevelNow("Reserves") = LevelOfScore(expected)
            /\ Below(r, 3200) => ScoreNow("Reserves") \in {0, 1}
            /\ (Is(r, 3100) /\ ChgEq(res_change_30d, 0))
                   => ScoreNow("Reserves") = 1
            /\ (Is(r, 3500) /\ Len(df) >= 30 /\ Is(Iloc(df, 30).Reserves, 3800))
                   => ScoreNow("Reserves") = 2

C1_Witness ==
    /\ Assessed
    /\ Len(df) >= 30
    /\ Is(Latest.Reserves, 3500)
    /\ Is(Iloc(df, 30).Reserves, 3800)
    /\ ScoreNow("Reserves") = 2
    /\ LevelNow("Reserves") = "CAUTION"

\* C2: RP is classified by first match with strict comparisons: v > 50
\* danger (0), else v > 30 warning (1), else v > 20 caution (2), else normal
\* (3); exactly 20, 30 or 50 falls in the less severe band.
C2_RPFirstMatch ==
    Assessed =>
        LET v == Latest.RP
            expected ==
                IF Above(v, 50) THEN 0
                ELSE IF Above(v, 30) THEN 1
                ELSE IF Above(v, 20) THEN 2
                ELSE 3
        IN  /\ ScoreNow("RP") = expected
            /\ LevelNow("RP") = LevelOfScore(expected)
            /\ Is(v, 20) => ScoreNow("RP") = 3
            /\ Is(v, 30) => ScoreNow("RP") = 2
            /\ Is(v, 50) => ScoreNow("RP") = 1
            /\ Is(v, 55) => ScoreNow("RP") = 0

C2_Witness ==
    /\ Assessed
    /\ Is(Latest.RP, 50)
    /\ ScoreNow("RP") = 1
    /\ LevelNow("RP") = "WARNING"

\* C3: RRP is classified by first match with strict comparisons: v < 100
\* danger (0), else v < 200 warning (1), else v < 300 caution (2), else
\* normal (3); exactly 100, 200 or 300 falls in the less severe band.
C3_RRPFirstMatch ==
    Assessed =>
        LET v == Latest.RRP
            expected ==
                IF Below(v, 100) THEN 0
                ELSE IF Below(v, 200) THEN 1
                ELSE IF Below(v, 300) THEN 2
                ELSE 3
        IN  /\ ScoreNow("RRP") = expected
            /\ LevelNow("RRP") = LevelOfScore(expected)
            /\ Is(v, 100) => ScoreNow("RRP") = 1
            /\ Is(v, 200) => ScoreNow("RRP") = 2
            /\ Is(v, 300) => ScoreNow("RRP") = 3
            /\ Is(v, 350) => ScoreNow("RRP") = 3

C3_Witness ==
    /\ Assessed
    /\ Is(Latest.RRP, 100)
    /\ ScoreNow("RRP") = 1
    /\ LevelNow("RRP") = "WARNING"

\* C4: the spread in basis points is classified by first match: s > 100
\* danger (0), else s > 20 warning (1), else s > 10 caution (2), else normal
\* (3); a negative or zero spread is normal.
C4_SpreadFirstMatch ==
    Assessed =>
        LET s == Latest.Spread_bps
            expected ==
                IF Above(s, 100) THEN 0
                ELSE IF Above(s, 20) THEN 1
                ELSE IF Above(s, 10) THEN 2
                ELSE 3
        IN  /\ ScoreNow("Spread") = expected
            /\ LevelNow("Spread") = LevelOfScore(expected)
            /\ (~s.nan /\ s.v <= 0) => ScoreNow("Spread") = 3
            /\ Is(s, 5) => ScoreNow("Spread") = 3
            /\ Is(s, 10) => ScoreNow("Spread") = 3

C4_Witness ==
    /\ Assessed
    /\ Is(Latest.SOFR, 530)
    /\ Is(Latest.Spread_bps, -10)
    /\ ScoreNow("Spread") = 3
    /\ LevelNow("Spread") = "NORMAL"

\* C5: the overall score is exactly the sum of the four per-indicator
\* scores, each in 0..3, so it lies in 0..12, and max_score is 12.
C5_CompositeIsSum ==
    Assessed =>
        /\ \A i \in 1..Len(Indicators) : ScoreNow(Indicators[i]) \in 0..3
        /\ assessment.overall.score =
               ScoreNow("RP") + ScoreNow("RRP") + ScoreNow("Reserves")
                   + ScoreNow("Spread")
        /\ assessment.overall.score \in 0..12
        /\ assessment.overall.max_score = 12

C5_Witness ==
    /\ Assessed
    /\ ScoreNow("RP") = 3
    /\ ScoreNow("RRP") = 2
    /\ ScoreNow("Reserves") = 1
    /\ ScoreNow("Spread") = 2
    /\ assessment.overall.score = 8

\* severity rank of an overall level, 0 the most severe
TierRank(level) ==
    CASE level = "DANGER" -> 0 [] level = "WARNING" -> 1
      [] level = "CAUTION" -> 2 [] OTHER -> 3

\* C6: the overall status, message and recommendation are decided by the
\* composite score alone: >= 10 good (NORMAL), 7..9 caution, 4..6 warning,
\* 0..3 danger; a higher composite never gives a more severe status, and
\* 0+3+1+3 = 7 is caution.
C6_OverallByScore ==
    Assessed =>
        LET o == assessment.overall
            s == o.score
        IN  /\ s >= 10 =>
                   /\ o.status = "good" /\ o.level = "NORMAL"
                   /\ o.message =
                          "All liquidity indicators are in the normal range."
                   /\ o.recommendation = "Keep normal market monitoring"
            /\ s \in 7..9 =>
                   /\ o.status = "caution" /\ o.level = "CAUTION"
                   /\ o.message =
                          "Minor anomalies detected in some indicators."
                   /\ o.recommendation = "Watch market developments closely"
            /\ s \in 4..6 =>
                   /\ o.status = "warning" /\ o.level = "WARNING"
                   /\ o.message = "Liquidity stress signals are appearing."
                   /\ o.recommendation =
                          "Strengthen portfolio risk management"
            /\ s \in 0..3 =>
                   /\ o.status = "danger" /\ o.level = "DANGER"
                   /\ o.message = "Severe liquidity strain."
                   /\ o.recommendation = "Urgent risk hedging recommended"
            /\ \A t \in 0..12 :
                   t > s => TierRank(OverallOf(t).level) >= TierRank(o.level)

C6_Witness ==
    /\ Assessed
    /\ ScoreNow("RP") = 0
    /\ ScoreNow("RRP") = 3
    /\ ScoreNow("Reserves") = 1
    /\ ScoreNow("Spread") = 3
    /\ assessment.overall.score = 7
    /\ assessment.overall.status = "caution"

\* the frame with the latest value of one column replaced
WithLatest(frame, col, x) ==
    [frame EXCEPT ![Len(frame)] = [@ EXCEPT ![col] = x]]

ScoreOf(frame, ind) == AssessLiquidityStatus(frame).assessments[ind].score

ProbeVals ==
    Nums({-10, 0, 5, 10, 11, 20, 21, 30, 31, 50, 51, 55, 99, 100, 101, 150,
          199, 200, 250, 299, 300, 350, 2900, 2999, 3000, 3100, 3199, 3200,
          3325, 3500, 3610, 3800, 4000})

\* C7: with the rest of the frame held fixed, raising the latest RP or the
\* latest spread never gives a higher score, and lowering the latest RRP or
\* the latest reserves never gives a higher score.
C7_Monotonic ==
    Assessed =>
        \A x \in ProbeVals :
            /\ Above(x, Latest.RP.v) /\ ~Latest.RP.nan
                   => ScoreOf(WithLatest(df, "RP", x), "RP") <= ScoreNow("RP")
            /\ Above(x, Latest.Spread_bps.v) /\ ~Latest.Spread_bps.nan
                   => ScoreOf(WithLatest(df, "Spread_bps", x), "Spread")
                          <= ScoreNow("Spread")
            /\ Below(x, Latest.RRP.v) /\ ~Latest.RRP.nan
                   => ScoreOf(WithLatest(df, "RRP", x), "RRP")
                          <= ScoreNow("RRP")
            /\ Below(x, Latest.Reserves.v) /\ ~Latest.Reserves.nan
                   => ScoreOf(WithLatest(df, "Reserves", x), "Reserves")
                          <= ScoreNow("Reserves")

C7_Witness ==
    /\ Assessed
    /\ Len(df) >= 30
    /\ Is(Latest.Reserves, 3800)
    /\ ScoreNow("Reserves") = 3
    /\ ScoreOf(WithLatest(df, "Reserves", Num(3500)), "Reserves") = 2
    /\ ScoreOf(WithLatest(df, "Reserves", Num(3100)), "Reserves") = 1

\* C8 as stated: with reserves at or above 3200, every 30-observation
\* decline of 5% or more, exactly 5% included, gives caution (score 2).
C8_Original ==
    (Assessed /\ ~Latest.Reserves.nan /\ Latest.Reserves.v >= 3200
        /\ (ChgLt(res_change_30d, -5) \/ ChgEq(res_change_30d, -5)))
        => ScoreNow("Reserves") = 2

\* C8 amended: with reserves at or above 3200, every 30-observation decline
\* of more than 5% (change < -5) gives caution (score 2); a decline of
\* exactly 5% (change = -5) gives normal (score 3).
C8_TrendStrict ==
    (Assessed /\ ~Latest.Reserves.nan /\ Latest.Reserves.v >= 3200) =>
        /\ ChgLt(res_change_30d, -5) =>
               /\ ScoreNow("Reserves") = 2
               /\ LevelNow("Reserves") = "CAUTION"
        /\ ChgEq(res_change_30d, -5) =>
               /\ ScoreNow("Reserves") = 3
               /\ LevelNow("Reserves") = "NORMAL"

C8_Witness ==
    /\ Assessed
    /\ Len(df) >= 30
    /\ Is(Latest.Reserves, 3800)
    /\ Is(Iloc(df, 30).Reserves, 4000)
    /\ ChgEq(res_change_30d, -5)
    /\ ScoreNow("Reserves") = 3

\* C9 as stated: with at least 30 rows, the reserve change compares the
\* latest value with the value of the row 30 positions before the last row
\* (a row that exists from 31 rows on).
C9_Original ==
    (Assessed /\ Len(df) >= 31) =>
        res_change_30d =
            PctChange(Latest.Reserves, df[Len(df) - 30].Reserves)

\* C10: with fewer than 30 rows the reserve change is exactly 0, so reserves
\* at or above 3200 are normal (score 3) whatever the earlier values.
C10_ShortFrameNoTrend ==
    (Assessed /\ Len(df) < 30) =>
        /\ res_change_30d.kind = "num"
        /\ res_change_30d.n = 0
        /\ (~Latest.Reserves.nan /\ Latest.Reserves.v >= 3200) =>
               /\ ScoreNow("Reserves") = 3
               /\ LevelNow("Reserves") = "NORMAL"

C10_Witness ==
    /\ Assessed
    /\ Len(df) = 29
    /\ Is(df[1].Reserves, 3800)
    /\ Is(Latest.Reserves, 3500)
    /\ res_change_30d.n = 0
    /\ ScoreNow("Reserves") = 3

\* the risk-signal list of this run is built
Signalled == pc \in {"signalled", "reported"}

HasSignal(kind, ind) ==
    \E i \in 1..Len(risk_signals) :
        risk_signals[i].kind = kind /\ risk_signals[i].indicator = ind

\* the magnitude of a finite change is above t
MagnitudeAbove(c, t) ==
    c.kind = "num" /\ (c.n > t * c.d \/ c.n < (0 - t) * c.d)

\* C11 as stated: every percentage change the program computes is exactly 0
\* whenever its denominator, the earlier value, is 0.
C11_Original ==
    /\ (Assessed /\ Len(df) >= 30 /\ Is(Iloc(df, 30).Reserves, 0))
           => ChgEq(res_change_30d, 0)
    /\ (Signalled /\ Len(df) >= 7 /\ Is(Iloc(df, 7).RP, 0))
           => ChgEq(rp_change_7d, 0)
    /\ (Signalled /\ Len(df) >= 7 /\ Is(Iloc(df, 7).RRP, 0))
           => ChgEq(rrp_change_7d, 0)

\* C18: an RP abrupt-move signal is emitted exactly when the frame has at
\* least 7 rows and the magnitude of the 7-observation RP change is above 50,
\* an RRP one exactly when it has at least 7 rows and the magnitude of the
\* RRP change is above 30, whatever the level classification says.
C18_AbruptMoves ==
    Signalled =>
        /\ HasSignal("move", "RP")
               <=> (Len(df) >= 7 /\ MagnitudeAbove(rp_change_7d, 50))
        /\ HasSignal("move", "RRP")
               <=> (Len(df) >= 7 /\ MagnitudeAbove(rrp_change_7d, 30))
        /\ Len(df) >= 7 =>
               /\ (Is(Iloc(df, 7).RP, 10) /\ Is(Latest.RP, 16))
                      => HasSignal("move", "RP")
               /\ (Is(Iloc(df, 7).RP, 10) /\ Is(Latest.RP, 15))
                      => ~HasSignal("move", "RP")
               /\ (Is(Iloc(df, 7).RP, 16) /\ Is(Latest.RP, 0))
                      => HasSignal("move", "RP")
               /\ (Is(Iloc(df, 7).RRP, 100) /\ Is(Latest.RRP, 131))
                      => HasSignal("move", "RRP")
               /\ (Is(Iloc(df, 7).RRP, 100) /\ Is(Latest.RRP, 130))
                      => ~HasSignal("move", "RRP")
               /\ (Is(Iloc(df, 7).RRP, 350) /\ Is(Latest.RRP, 131))
                      => HasSignal("move", "RRP")

C18_Witness ==
    /\ Signalled
    /\ Len(df) >= 7
    /\ Is(Iloc(df, 7).RP, 10)
    /\ Is(Latest.RP, 16)
    /\ ScoreNow("RP") = 3
    /\ HasSignal("move", "RP")

\* position of an indicator in the order RP, RRP, Reserves, Spread
IndicatorRank(ind) ==
    CASE ind = "RP" -> 1 [] ind = "RRP" -> 2 [] ind = "Reserves" -> 3
      [] OTHER -> 4

\* C19: the risk-signal list holds exactly one level entry for each indicator
\* whose score is <= 1, in the order RP, RRP, Reserves, Spread, followed by
\* the abrupt-move entries (RP then RRP); a move entry never replaces a level
\* entry, and the all-clear line is shown, on the page and in the report,
\* exactly when the list is empty.
C19_RiskSignalList ==
    pc = "reported" =>
        /\ \A i \in 1..Len(Indicators) :
               LET ind == Indicators[i]
                   entries == {j \in 1..Len(risk_signals) :
                                   /\ risk_signals[j].kind = "level"
                                   /\ risk_signals[j].indicator = ind}
               IN  /\ ScoreNow(ind) <= 1 => Cardinality(entries) = 1
                   /\ ScoreNow(ind) >= 2 => entries = {}
                   /\ \A j \in entries :
                          risk_signals[j].message
                              = assessment.assessments[ind].message
        /\ \A i, j \in 1..Len(risk_signals) :
               i < j =>
                   /\ risk_signals[i].kind = "move"
                          => risk_signals[j].kind = "move"
                   /\ risk_signals[i].kind = risk_signals[j].kind
                          => IndicatorRank(risk_signals[i].indicator)
                                 < IndicatorRank(risk_signals[j].indicator)
        /\ \A i \in 1..Len(risk_signals) :
               /\ risk_signals[i].kind \in {"level", "move"}
               /\ risk_signals[i].kind = "move"
                      => risk_signals[i].indicator \in {"RP", "RRP"}
        /\ Len(risk_signals) = 0 <=>
               \E i \in 1..Len(screen) : screen[i].entry = AllClear
        /\ Len(risk_signals) = 0 <=>
               \E i \in 1..Len(report) : report[i] = AllClear
        /\ Len(risk_signals) > 0 =>
               /\ report = risk_signals
               /\ Len(screen) = Len(risk_signals)
               /\ \A i \in 1..Len(screen) :
                      /\ screen[i].widget = "warning"
                      /\ screen[i].entry = risk_signals[i]
        /\ Len(risk_signals) = 0 =>
               /\ report = <<AllClear>>
               /\ screen = <<[widget |-> "success", entry |-> AllClear]>>

C19_Witness ==
    /\ pc = "reported"
    /\ ScoreNow("RP") = 0
    /\ ScoreNow("Reserves") = 0
    /\ Len(risk_signals) = 4
    /\ risk_signals[1].kind = "level" /\ risk_signals[1].indicator = "RP"
    /\ risk_signals[2].kind = "level"
    /\ risk_signals[2].indicator = "Reserves"
    /\ risk_signals[3].kind = "move" /\ risk_signals[3].indicator = "RP"
    /\ risk_signals[4].kind = "move" /\ risk_signals[4].indicator = "RRP"

(* The frame against the provider's answers.                               *)

\* a frame has been returned by fetch_liquidity_data in this run
Built ==
    /\ pc \in {"fetched", "assessed", "signalled", "reported"}
    /\ Len(requested) = Len(SeriesOrder)

\* the observations the provider returned on the c-th request
Provided(c) == requested[c].response.data

\* the present observations of a series dated at or before d
PriorPresent(series, d) ==
    {k \in 1..Len(series) : series[k].date <= d /\ ~series[k].val.nan}

MostRecent(series, d) ==
    LET P == PriorPresent(series, d)
    IN  IF P = {} THEN NaN
        ELSE series[CHOOSE k \in P :
                        \A j \in P : series[j].date <= series[k].date].val

\* C12: in the returned frame every raw cell is the series' most recent
\* non-missing observation dated at or before the row's date; it is missing
\* only when there is none, and no column has a gap after its first value.
C12_ForwardFill ==
    Built =>
        \A i \in 1..Len(df), c \in 1..Len(SeriesOrder) :
            LET col == SeriesOrder[c]
            IN  /\ df[i][col] = MostRecent(Provided(c), df[i].date)
                /\ df[i][col].nan <=>
                       PriorPresent(Provided(c), df[i].date) = {}
                /\ \A j \in i..Len(df) : ~df[i][col].nan => ~df[j][col].nan

\* a cell carried forward over a missing observation and over a date the
\* series does not have, next to a cell that stays missing
C12_Witness ==
    /\ pc = "fetched"
    /\ Len(requested) = Len(SeriesOrder)
    /\ Len(df) = 3
    /\ Provided(1) = <<Obs(1, ProviderValue("RP", 1)), Obs(2, NaN)>>
    /\ df[2].RP = ProviderValue("RP", 1)
    /\ df[3].RP = ProviderValue("RP", 1)
    /\ df[1].RRP.nan
    /\ ~df[2].RRP.nan

\* the observation dates of the five answers
ObservedDates ==
    UNION {SeriesDates(Provided(c)) : c \in 1..Len(SeriesOrder)}

\* C13: the row dates are exactly the union of the five series' observation
\* dates at or after start_date, in ascending order; a value observed before
\* start_date is carried into the rows (truncation follows the forward fill).
C13_RowDates ==
    Built =>
        /\ {df[i].date : i \in 1..Len(df)} =
               {d \in ObservedDates : d >= start_date}
        /\ \A i \in 1..Len(df) : df[i].date >= start_date
        /\ \A i \in 1..Len(df), j \in 1..Len(df) :
               i < j => df[i].date < df[j].date
        /\ \A i \in 1..Len(df), c \in 1..Len(SeriesOrder) :
               PriorPresent(Provided(c), start_date - 1) # {}
                   => ~df[i][SeriesOrder[c]].nan

\* a row on a date only some series have, an observation before start_date
\* left out, and its value carried into the first row
C13_Witness ==
    /\ pc = "fetched"
    /\ Len(requested) = Len(SeriesOrder)
    /\ start_date = 2
    /\ 1 \in ObservedDates
    /\ Len(df) = 2
    /\ SeriesDates(Provided(1)) = {1}
    /\ SeriesDates(Provided(2)) = {2}
    /\ df[1].date = 2
    /\ df[1].RP = ProviderValue("RP", 1)

C17_NoEmptySuccess ==
    /\ pc = "error" =>
           /\ Len(errors) > 0
           /\ errors[Len(errors)] \in {"no data", "load failed"}
           /\ Len(df) = 0
           /\ DOMAIN assessment = {}
           /\ res_change_30d = ChgUnset
           /\ rp_change_7d = ChgUnset
           /\ rrp_change_7d = ChgUnset
           /\ risk_signals = <<>>
           /\ screen = <<>>
           /\ report = <<>>
    /\ pc \in {"assessed", "signalled", "reported"} =>
           /\ Len(df) > 0
           /\ DOMAIN assessment # {}
           /\ \A e \in 1..Len(errors) :
                  errors[e] \notin {"no data", "load failed"}
    /\ pc = "fetched" /\ Len(df) = 0 =>
           /\ ~ENABLED MainAssess
           /\ ENABLED MainEmptyFrame

\* every observation returned is older than start_date: the frame is empty
\* after the filter and the run ends in the error state
C17_Witness ==
    /\ pc = "error"
    /\ Len(requested) = Len(SeriesOrder)
    /\ \A c \in 1..Len(SeriesOrder) : requested[c].response.ok
    /\ ObservedDates # {}
    /\ errors = <<"no data">>

(* Moving averages.                                                        *)

\* the rows of the window of width w ending at row i with a present value
PresentRows(col, w, i) ==
    {k \in 1..i : k >= i - w + 1 /\ ~df[k][col].nan}

RECURSIVE SumOver(_, _)
SumOver(col, rows) ==
    IF rows = {} THEN 0
    ELSE LET k == CHOOSE x \in rows : TRUE
         IN  df[k][col].v + SumOver(col, rows \ {k})

\* the cell is the mean of the rows' values (n/d = sum/count)
IsMeanOf(cell, col, rows) ==
    /\ ~cell.nan
    /\ cell.n * Cardinality(rows) = SumOver(col, rows) * cell.d

HasMAs == pc \in {"fetched", "assessed"} /\ Len(df) > 0

\* C14 as stated: every moving-average cell is the mean of the present
\* values of its window and is never missing.
C14_Original ==
    HasMAs =>
        \A i \in 1..Len(df), m \in DOMAIN MATable :
            IsMeanOf(df[i][m], MATable[m].col,
                     PresentRows(MATable[m].col, MATable[m].window, i))

\* C14: every moving-average cell is the mean of the present values of its
\* column in rows max(1, i-w+1)..i (all rows so far when fewer than w exist;
\* the value itself at the first row), and it is missing exactly when that
\* window holds no present value.
C14_WindowMean ==
    HasMAs =>
        \A i \in 1..Len(df), m \in DOMAIN MATable :
            LET col == MATable[m].col
                w == MATable[m].window
                rows == PresentRows(col, w, i)
            IN  /\ df[i][m].nan <=> rows = {}
                /\ rows # {} => IsMeanOf(df[i][m], col, rows)
                /\ i <= w =>
                       rows = {k \in 1..i : ~df[k][col].nan}
                /\ i = 1 /\ ~df[1][col].nan =>
                       df[1][m].n = df[1][col].v * df[1][m].d

\* a frame longer than every window: MA60 of the first three rows is their
\* plain mean, the last row's windows are full, and the MAs of a column
\* without values are missing
C14_Witness ==
    /\ pc = "fetched"
    /\ Len(df) > 60
    /\ ~df[1].RP.nan
    /\ df[3].RP_MA60 = Mean(df[1].RP.v + df[2].RP.v + df[3].RP.v, 3)
    /\ df[Len(df)].RP_MA7.d = 7
    /\ df[Len(df)].RP_MA30.d = 30
    /\ df[Len(df)].RP_MA60.d = 60
    /\ df[Len(df)].RRP_MA60.nan

\* C15: recomputing the moving averages on a frame that carries them gives
\* the same frame: the same twelve MA columns with the same values, no new
\* column, the raw and spread columns and the row order unchanged.
C15_Idempotent ==
    HasMAs =>
        LET again == AddMovingAverages(df)
        IN  /\ again = df
            /\ Len(again) = Len(df)
            /\ \A i \in 1..Len(df) :
                   /\ again[i].date = df[i].date
                   /\ DOMAIN again[i] = DOMAIN df[i]
                   /\ DOMAIN df[i] =
                          {"date", "Spread_bps"} \cup RawColumns
                              \cup DOMAIN MATable
                   /\ \A c \in DOMAIN df[i] : again[i][c] = df[i][c]

C15_Witness ==
    /\ pc = "assessed"
    /\ Len(df) > 60
    /\ df[Len(df)].Reserves_MA7 # df[Len(df)].Reserves_MA30
    /\ df[Len(df)].Reserves_MA30 # df[Len(df)].Reserves_MA60
    /\ df[8].RP.nan
    /\ ~df[9].RP.nan

(* The two application files.                                              *)

\* the provider's answers of this run
Answers == [c \in 1..Len(requested) |-> requested[c].response]

\* C20: on the provider's answers of a run the frame of src/app.py is the
\* frame fetch_liquidity_data of src/apptest2.py returns, and on every frame
\* the snapshot of src/app.py is the snapshot assess_liquidity_status of
\* src/apptest2.py returns.
C20_SameEngine ==
    /\ Built => df = T2_FetchLiquidityData(Answers, start_date)
    /\ pc = "assessed" =>
           /\ assessment = T2_AssessLiquidityStatus(df)
           /\ res_change_30d = T2_ResChange30d(df)

\* a run on the provider's answers with a failed series, classified
C20_Witness ==
    /\ pc = "assessed"
    /\ Built
    /\ Len(df) = 3
    /\ ~requested[3].response.ok
    /\ assessment.overall.level = "WARNING"
    /\ assessment.assessments["RP"].score = 0

(* The caches.                                                             *)

\* this step is a fetch_data_with_ffill call for the next series
SeriesCall == Len(all_data') = Len(all_data) + 1

\* this step contacts the provider
ProviderCall == Len(requested') = Len(requested) + 1

\* this step returns the frame of fetch_liquidity_data to main()
FrameReturn == pc = "run" /\ pc' = "fetched"

NextKey == SeriesKey(SeriesOrder[Len(all_data) + 1], start_date)

\* the cache holds an entry for the key that is less than one hour old
Fresh(cache, key, t) ==
    /\ key \in DOMAIN cache
    /\ t - cache[key].stored_at < 60 * 60

\* C21: while the entry of (start date) or of (series, start date) is less
\* than an hour old the run uses it and does not contact the provider; a
\* provider request is made only without such an entry; the refresh handler
\* leaves both caches empty and the run after it requests all five series.
C21_CacheReuse ==
    [][/\ FrameReturn /\ Fresh(cache_frame, start_date, now) /\ all_data = <<>>
           => /\ requested' = <<>>
              /\ all_data' = <<>>
              /\ df' = cache_frame[start_date].value
       /\ SeriesCall /\ Fresh(cache_series, NextKey, now)
           => /\ requested' = requested
              /\ all_data' = Append(all_data, cache_series[NextKey].value)
       /\ ProviderCall
           => /\ SeriesCall
              /\ ~Fresh(cache_frame, start_date, now)
              /\ ~Fresh(cache_series, NextKey, now)
              /\ requested'[Len(requested')].series_id = NextKey[1]
       /\ SeriesCall /\ ~Fresh(cache_series, NextKey, now) => ProviderCall
       /\ pc = "refresh" => /\ pc' = "run"
                            /\ DOMAIN cache_series' = {}
                            /\ DOMAIN cache_frame' = {}
       /\ FrameReturn /\ DOMAIN cache_series = {} /\ DOMAIN cache_frame = {}
           => FALSE
       /\ FrameReturn /\ ~Fresh(cache_frame, start_date, now)
           => /\ Len(all_data) = Len(SeriesOrder)
              /\ \A c \in 1..Len(SeriesOrder) :
                     Fresh(cache_series, SeriesKey(SeriesOrder[c], start_date),
                           now)
    ]_vars

\* a later run inside the hour: the frame cached earlier is returned and the
\* provider was not contacted
C21_Witness ==
    /\ pc = "fetched"
    /\ requested = <<>>
    /\ all_data = <<>>
    /\ Len(df) > 0
    /\ start_date \in DOMAIN cache_frame
    /\ cache_frame[start_date].stored_at < now
    /\ now < cache_frame[start_date].stored_at + TTL
    /\ df = cache_frame[start_date].value

\* C30: the empty series returned after a provider error is cached like any
\* result: it is stored with the time of the call, a later call inside the
\* hour gets it without a provider request, the frame built from it is
\* cached and returned the same way, and once the entry is an hour old the
\* provider is asked again.
C30_EmptyFallbackCached ==
    [][/\ ProviderCall /\ ~requested'[Len(requested')].response.ok
           => /\ NextKey \in DOMAIN cache_series'
              /\ cache_series'[NextKey] = Entry(<<>>, now, <<NextKey[1]>>)
              /\ all_data' = Append(all_data, <<>>)
       /\ SeriesCall /\ Fresh(cache_series, NextKey, now)
              /\ cache_series[NextKey].value = <<>>
           => /\ ~ProviderCall
              /\ all_data' = Append(all_data, <<>>)
              /\ cache_series' = cache_series
       /\ SeriesCall /\ ~Fresh(cache_series, NextKey, now) => ProviderCall
       /\ FrameReturn /\ Len(all_data) = Len(SeriesOrder)
           => /\ start_date \in DOMAIN cache_frame'
              /\ cache_frame'[start_date].value = df'
              /\ cache_frame'[start_date].stored_at = now
              /\ \A c \in 1..Len(SeriesOrder) :
                     all_data[c] = <<>> =>
                         \A i \in 1..Len(df') : df'[i][SeriesOrder[c]].nan
       /\ FrameReturn /\ Len(all_data) # Len(SeriesOrder)
           => /\ Fresh(cache_frame, start_date, now)
              /\ ~ProviderCall
              /\ df' = cache_frame[start_date].value
    ]_vars

\* a later run inside the hour gets the frame built from the failed RP fetch
\* (RP missing in every row) without a provider request
C30_Witness ==
    /\ pc = "fetched"
    /\ requested = <<>>
    /\ all_data = <<>>
    /\ Len(df) > 0
    /\ \A i \in 1..Len(df) : df[i].RP.nan /\ ~df[i].RRP.nan
    /\ SeriesKey("RP", start_date) \in DOMAIN cache_series
    /\ cache_series[SeriesKey("RP", start_date)].value = <<>>
    /\ cache_frame[start_date].stored_at < now
    /\ now < cache_frame[start_date].stored_at + TTL


\* something of the dashboard has happened in the current run
DashboardTouched ==
    \/ pc \in {"keys", "run", "fetched", "assessed", "tabs", "done", "error"}
    \/ df # EmptyFrame
    \/ assessment # <<>>
    \/ requested # <<>>
    \/ risk_signals # <<>>
    \/ screen # <<>>
    \/ report # <<>>
    \/ ai_calls # <<>>

\* the submitted credentials are an entry of the credential mapping
SubmittedEntry(f) ==
    /\ f.submit
    /\ \E u \in Users :
           /\ u = f.username
           /\ <<u, f.password>> \in secrets.passwords

\* what every step does to the login flag
LoginStep ==
    /\ (~password_correct /\ password_correct') =>
           (/\ secrets.has_passwords
            /\ SubmittedEntry(form')
            /\ pc = "gate"
            /\ pc' = "gate"
            /\ ~DashboardTouched')
    /\ (pc = "gate" /\ pc' # "gate") =>
           (password_correct \/ pc' = "stopped")
    /\ (~password_correct /\ pc = "gate" /\ pc' = "stopped") =>
           (/\ ~password_correct'
            /\ ~(secrets.has_passwords /\ SubmittedEntry(form')))
    /\ password_correct => password_correct'

\* C22: nothing of the dashboard (fetch, assessment, rendering, AI call)
\* happens in a run unless password_correct was already true when the run
\* started; the flag becomes true only in a login step whose submitted
\* username is in the credential mapping with the submitted password, and
\* that step restarts the script; a failed attempt leaves the flag false and
\* the form is offered again on the next run.
C22_LoginGate ==
    /\ [](DashboardTouched => password_correct)
    /\ []((pc = "gate" /\ ~password_correct) => ENABLED CheckPasswordForm)
    /\ []((pc = "stopped") => ENABLED ScriptRerun)
    /\ [][LoginStep]_vars

\* the step after a good login: the flag is set, the script restarts
C22_Witness ==
    /\ password_correct
    /\ pc = "gate"
    /\ SubmittedEntry(form)
    /\ ~DashboardTouched


\* the calls of the run went to enabled providers only
CallsEnabledOnly ==
    \A i \in 1..Len(ai_calls) :
        /\ ai_calls[i].service = "Gemini" => GEMINI_AVAILABLE
        /\ ai_calls[i].service = "OpenAI" => OPENAI_ENABLED

\* the entry points of a disabled provider, for every outcome the service
\* could have had
DisabledAnswers ==
    \A outcome \in AIOutcomes :
        /\ ~GEMINI_AVAILABLE =>
               /\ GenerateGeminiAnalysis(GEMINI_AVAILABLE, assessment,
                                         outcome)
                      = Result(AIText("not_configured", {}, "Gemini"), <<>>)
               /\ \A indicator \in {"RP", "RRP", "Reserves", "Spread"} :
                      GenerateGeminiSingleIndicator(
                          GEMINI_AVAILABLE, assessment, indicator, outcome)
                      = Result(AIText("not_configured", {}, "Gemini"), <<>>)
               /\ QueryAdvancedChat(
                      AIText("prompt", {}, "typed question"), <<>>, "Gemini",
                      advanced_chat_messages, GEMINI_AVAILABLE,
                      OPENAI_ENABLED, outcome)
                      = Result(AIText("not_configured", {}, "Gemini"), <<>>)
        /\ ~OPENAI_ENABLED =>
               QueryAdvancedChat(
                   AIText("prompt", {}, "typed question"), <<>>, "OpenAI",
                   advanced_chat_messages, GEMINI_AVAILABLE, OPENAI_ENABLED,
                   outcome)
                   = Result(AIText("not_configured", {}, "OpenAI"), <<>>)

\* what a step does when a key is missing
KeysStep ==
    /\ (pc = "keys" /\ ~secrets.FRED_API_KEY) =>
           (pc' = "stopped" /\ requested' = <<>> /\ df' = EmptyFrame)
    /\ (pc = "keys" /\ secrets.FRED_API_KEY) =>
           (/\ pc' = "run"
            /\ GEMINI_AVAILABLE' = secrets.GEMINI_API_KEY
            /\ OPENAI_ENABLED' => secrets.OPENAI_API_KEY)
    /\ (pc = "tabs" /\ ~GEMINI_AVAILABLE) =>
           (/\ comprehensive_analysis' \in
                   {comprehensive_analysis,
                    <<AIText("not_configured", {}, "Gemini")>>}
            /\ single_analysis' \in
                   {single_analysis,
                    <<AIText("not_configured", {}, "Gemini")>>})
    /\ (pc = "tabs" /\ ~GEMINI_AVAILABLE /\ ~OPENAI_ENABLED) =>
           (/\ ai_calls' = <<>>
            /\ advanced_chat_messages' \in {advanced_chat_messages, <<>>})

\* C23: without FRED_API_KEY the script stops at the keys, before any fetch;
\* without the Gemini or the OpenAI key it goes on to the pipeline and the
\* tabs, the provider is marked disabled, every entry point of a disabled
\* provider returns the fixed 'not configured' text whatever the service
\* would have answered, and no request goes to a disabled provider.
C23_MissingKeys ==
    /\ [](~secrets.FRED_API_KEY =>
              /\ pc \in {"gate", "keys", "stopped"}
              /\ requested = <<>>
              /\ df = EmptyFrame
              /\ assessment = <<>>
              /\ ai_calls = <<>>)
    /\ [](pc \in {"run", "fetched", "assessed", "tabs", "done", "error"} =>
              /\ secrets.FRED_API_KEY
              /\ GEMINI_AVAILABLE = secrets.GEMINI_API_KEY
              /\ OPENAI_ENABLED => secrets.OPENAI_API_KEY)
    /\ [](pc \in {"tabs", "done"} => CallsEnabledOnly /\ DisabledAnswers)
    /\ [][KeysStep]_vars

\* a deployment without AI keys: the dashboard ran and the analysis button
\* answered with the 'not configured' text
C23_Witness ==
    /\ ~secrets.GEMINI_API_KEY
    /\ ~secrets.OPENAI_API_KEY
    /\ pc = "done"
    /\ assessment # <<>>
    /\ comprehensive_analysis = <<AIText("not_configured", {}, "Gemini")>>
    /\ ai_calls = <<>>


\* the texts an entry point returns
TextKinds == {"ai", "quota", "error", "not_configured"}

IsText(t) == t.kind \in TextKinds

\* an answer: a text, after at most one request
Answered(r) == IsText(r.text) /\ Len(r.calls) <= 1

\* every entry point answers whatever the external call does
AllOutcomesAnswered ==
    \A outcome \in AIOutcomes :
        /\ Answered(GenerateGeminiAnalysis(GEMINI_AVAILABLE, assessment,
                                           outcome))
        /\ \A indicator \in {"RP", "RRP", "Reserves", "Spread"} :
               Answered(GenerateGeminiSingleIndicator(
                            GEMINI_AVAILABLE, assessment, indicator, outcome))
        /\ \A model_choice \in {"Gemini", "OpenAI"} :
               Answered(QueryAdvancedChat(
                            AIText("prompt", {}, "typed question"),
                            liquidity_context, model_choice,
                            advanced_chat_messages, GEMINI_AVAILABLE,
                            OPENAI_ENABLED, outcome))

\* the texts kept in the session
StoredTexts ==
    {comprehensive_analysis[i] : i \in 1..Len(comprehensive_analysis)}
    \cup {single_analysis[i] : i \in 1..Len(single_analysis)}
    \cup {advanced_chat_messages[i].content :
              i \in {j \in 1..Len(advanced_chat_messages) :
                         advanced_chat_messages[j].role = "assistant"}}

\* a handler runs to its end and sends at most one request
HandlerStep ==
    (pc = "tabs") =>
        /\ pc' = "done"
        /\ Len(ai_calls') <= 1
        /\ \A t \in StoredTexts' : IsText(t)

\* C24: for every outcome of the external call (a text, a quota error, any
\* other exception) generate_gemini_analysis,
\* generate_gemini_single_indicator and query_advanced_chat return a text
\* and the handler runs to its end; a run sends at most one request to the
\* service, whatever the outcome.
C24_NoFailureCrosses ==
    /\ [](Len(ai_calls) <= 1)
    /\ [](\A t \in StoredTexts : IsText(t))
    /\ [](pc \in {"tabs", "done"} => AllOutcomesAnswered)
    /\ [][HandlerStep]_vars

\* the service failed with a network error: one request was sent and the
\* error text is what the session keeps
C24_Witness ==
    /\ pc = "done"
    /\ Len(ai_calls) = 1
    /\ ai_calls[1].entry = "generate_gemini_analysis"
    /\ comprehensive_analysis =
           <<AIText("error", {}, "Connection reset by peer")>>


\* the analysis texts returned in place of AI text after a failed call
FallbackTexts ==
    {t \in {comprehensive_analysis[i] : i \in 1..Len(comprehensive_analysis)}
           \cup {single_analysis[i] : i \in 1..Len(single_analysis)} :
        t.kind \in {"quota", "error"}}

\* C25 (as stated): every message returned after an AI-service failure, in
\* the comprehensive, deep-dive and single-indicator analyses, carries the
\* overall status and the level of an indicator of the assessment.
C25_Original ==
    \A t \in FallbackTexts :
        /\ \E item \in t.embedded : item[1] = "overall"
        /\ \E item \in t.embedded :
               item[1] \in {"RP", "RRP", "Reserves", "Spread"}


\* the frame column an indicator is read from
IndicatorColumn ==
    [RP |-> "RP", RRP |-> "RRP", Reserves |-> "Reserves",
     Spread |-> "Spread_bps"]

\* the indicator's value in the latest row is missing
LatestMissing(indicator) == Iloc(df, 1)[IndicatorColumn[indicator]].nan

\* C26: an indicator whose latest value is missing (a failed fetch left the
\* column empty, or SOFR or IORB is missing so the spread is) is assessed
\* NORMAL with score 3, the full score of one indicator, so the composite
\* is not lowered by it, and the risk-signal list has no level entry for it.
C26_MissingIsNormal ==
    (assessment # <<>>) =>
        /\ (Iloc(df, 1).SOFR.nan \/ Iloc(df, 1).IORB.nan)
               => LatestMissing("Spread")
        /\ assessment.overall.score = TotalScore(assessment.assessments)
        /\ \A indicator \in DOMAIN IndicatorColumn :
               LatestMissing(indicator) =>
                   /\ assessment.assessments[indicator].level = "NORMAL"
                   /\ assessment.assessments[indicator].score = 3
                   /\ \A other \in DOMAIN IndicatorColumn :
                          assessment.assessments[other].score <= 3
                   /\ \A i \in 1..Len(risk_signals) :
                          ~(/\ risk_signals[i].kind = "level"
                            /\ risk_signals[i].indicator = indicator)

\* the RRP fetch failed, RP is in the danger band: the list has the RP
\* entry and none for RRP
C26_Witness ==
    /\ pc = "signalled"
    /\ LatestMissing("RRP")
    /\ LatestMissing("Spread")
    /\ ~LatestMissing("RP")
    /\ \E i \in 1..Len(risk_signals) :
           risk_signals[i].kind = "level" /\ risk_signals[i].indicator = "RP"


\* the chat requests of the run
ChatCalls ==
    {ai_calls[i] : i \in {j \in 1..Len(ai_calls) :
                              ai_calls[j].entry = "query_advanced_chat"}}

\* what every step does to the stored context
ContextStep ==
    /\ (liquidity_context # <<>>) => liquidity_context' = liquidity_context
    /\ (liquidity_context' # liquidity_context) =>
           (/\ pc = "assessed"
            /\ liquidity_context = <<>>
            /\ liquidity_context' =
                   <<GenerateLiquidityContext(df, assessment, now)>>)
    /\ (pc = "assessed" /\ pc' = "tabs") => liquidity_context' # <<>>

\* C27: the context is written only while the session has none; once
\* stored no later step (a new run, other provider data, another
\* assessment) changes it, and every chat request carries the stored
\* context, whatever the assessment of the current run is.
C27_ContextWrittenOnce ==
    /\ [](\A call \in ChatCalls :
              liquidity_context # <<>>
              /\ call.context = liquidity_context[1])
    /\ [][ContextStep]_vars

\* a chat question sent in a run whose assessment differs from the one the
\* stored context was built from
C27_Witness ==
    /\ pc = "done"
    /\ ChatCalls # {}
    /\ assessment # <<>>
    /\ liquidity_context # <<>>
    /\ liquidity_context[1].overall # assessment.overall
    /\ liquidity_context[1] # GenerateLiquidityContext(df, assessment, now)


\* user, assistant, user, assistant, ...
Alternates(h) ==
    /\ Len(h) % 2 = 0
    /\ \A i \in 1..Len(h) :
           h[i].role = (IF i % 2 = 1 THEN "user" ELSE "assistant")

\* h2 is h1 with one turn appended: the question, then the answer
OneTurn(h1, h2) ==
    /\ Len(h2) = Len(h1) + 2
    /\ \A i \in 1..Len(h1) : h2[i] = h1[i]
    /\ h2[Len(h1) + 1].role = "user"
    /\ h2[Len(h1) + 1].content.kind = "prompt"
    /\ h2[Len(h1) + 2].role = "assistant"
    /\ h2[Len(h1) + 2].content.kind \in {"ai", "error"}

\* what every step does to the chat history
ChatStep ==
    /\ \/ advanced_chat_messages' = advanced_chat_messages
       \/ advanced_chat_messages' = <<>> /\ pc = "tabs"
       \/ /\ OneTurn(advanced_chat_messages, advanced_chat_messages')
          /\ pc = "tabs"
          /\ OPENAI_ENABLED \/ GEMINI_AVAILABLE
          /\ Len(ai_calls') = 1
    /\ (~OPENAI_ENABLED /\ ~GEMINI_AVAILABLE) =>
           advanced_chat_messages' \in {advanced_chat_messages, <<>>}

Min(a, b) == IF a < b THEN a ELSE b

\* the window of a service and the role names it is sent
WindowOf(service) == IF service = "Gemini" THEN 10 ELSE 6

SentRole(service, role) ==
    IF service = "Gemini"
    THEN (IF role = "user" THEN "User" ELSE "AI")
    ELSE role

\* the request of this run's chat turn against the history at the time of
\* the call: the stored history without the answer just appended
TurnRequest(call) ==
    LET prior == SubSeq(advanced_chat_messages, 1,
                        Len(advanced_chat_messages) - 1)
        n == Len(call.history)
    IN  /\ n = Min(WindowOf(call.service), Len(prior))
        /\ \A k \in 1..n :
               /\ call.history[k].content = prior[Len(prior) - n + k].content
               /\ call.history[k].role =
                      SentRole(call.service, prior[Len(prior) - n + k].role)
        /\ call.history[n].content = call.prompt
        /\ SentRole(call.service, "user") = call.history[n].role
        /\ call.prompt = prior[Len(prior)].content

\* C29: the request of a chat turn carries the last 10 (Gemini) or last 6
\* (OpenAI) entries of the history as it is after the user entry was
\* appended: the window ends with the current question, which is also the
\* final prompt of the request, and no entry before the window is sent.
C29_WindowEndsWithQuestion ==
    (pc = "done") => \A call \in ChatCalls : TurnRequest(call)

\* a sixth turn sent to Gemini: eleven entries at the call, ten sent
C29_Witness ==
    /\ pc = "done"
    /\ Len(advanced_chat_messages) = 12
    /\ \E call \in ChatCalls :
           /\ call.service = "Gemini"
           /\ Len(call.history) = 10
           /\ call.history[10].content = call.prompt
           /\ call.history[1] # RoleLabel(advanced_chat_messages[1])

====
